---- MODULE Spec2Model ----
(***************************************************************************)
(* A model of the Playwright timeline server: the instrumented runner of   *)
(* playwright-wrapper.ts (run, replayStep, executeStep, performAction,     *)
(* maskValue, the CDP screencast, close) and the tool handlers of          *)
(* server.ts.                                                              *)
(*                                                                         *)
(* Strings whose characters matter (selectors, values) are sequences of    *)
(* one-character strings; an optional field is a sequence of length at     *)
(* most one: None when the field is undefined, Some(x) when it holds x.    *)
(***************************************************************************)
EXTENDS Integers, Sequences, FiniteSets, TLC

VARIABLES
    \* ---- PlaywrightRunner.run / replayStep (one runner, one run) ----
    actions,      \* the action list given to run()
    opts,         \* RunOptions: captureScreenshots, screenshotOnFailure
    handles,      \* the runner's browser / context / page handles (set or null)
    steps,        \* the local `steps` array of run()
    i,            \* the loop variable of run()
    pc,           \* position of run(): "launch", "navigate", "loop", "done", "threw"
    calls,        \* history: positions of `actions` on which performAction was invoked
    trace,        \* history: per executed step of run(), what its action did
    shots,        \* history: number of executeStep calls so far (names the screenshot of each)
    replayed,     \* outcome of the last replayStep call, None before the first
    nReplay,      \* number of replayStep calls made
    twinOn,       \* whether a second run on `actions2` is carried out alongside
    actions2,     \* the action list of the second run
    steps2        \* the `steps` array of the second run

VARIABLES
    \* ---- PlaywrightRunner: CDP screencast and close() ----
    cdpSession,       \* this.cdpSession: 0 for null, else the session's number
    screencastActive, \* this.screencastActive
    cpc,              \* position of the startScreencast / stopScreencast / close call in progress
    closing,          \* whether that call is close() (stopScreencast is then its first part)
    nStarts,          \* number of startScreencast calls made
    lastStart,        \* history: the last startScreencast call, its state at the call and its outcome
    lastClose,        \* history: the runner's state when close() last returned, None before
    teardown,         \* history: the teardown steps of the close() call, in order
    \* ---- the browser's side of the CDP sessions ----
    nSessions,        \* number of CDP sessions created so far
    live,             \* sessions attached to the page
    casting,          \* sessions on which the browser runs a screencast
    asked,            \* history: sessions on which Page.startScreencast was sent
    stopped,          \* history: sessions on which stopScreencast() was invoked
    nFrames,          \* number of frames produced so far
    outstanding,      \* the frame the browser awaits the acknowledgment of
    event,            \* the Page.screencastFrame event on its way to the handler
    delivered,        \* history: frames given to onFrame, in order
    acked,            \* history: frames acknowledged, in order
    dropped           \* history: frames the handler returned on without delivering

VARIABLES
    \* ---- server.ts: the session state of the module ----
    runner,           \* whether `runner` is set (not null); its fields are the runner's above
    currentSteps,     \* the step results kept for the UI
    isHeadless,       \* the mode of the browser of the session
    isRecordingVideo, \* whether the session records video
    \* ---- the browsers of the machine ----
    open,             \* number of browsers launched and not yet closed; the one that
                      \* runner.browser refers to is among them
    recordVideo,      \* this.options.recordVideo of the runner
    runnerHeadless,   \* this.options.headless of the runner
    castModes,        \* history: the modes (headless or not) of the browsers on which
                      \* a screencast was started
    \* ---- history of the tool calls ----
    lastCall,         \* the last tool call: its tool, the state it found and its result
    closedSince,      \* close-browser has completed and no run tool was called since
    closedARunner,    \* whether that close-browser call found a runner to close
    peakOpen,         \* the largest number of browsers that were open at one time
    nCalls,           \* number of tool calls made
    lastResult,       \* history: the structured result of the tool call just made, if kept
    lastVideo,        \* history: what getVideoPath last returned, and when it was called
    screencastFrameCallback,  \* the module's frame callback is set (not null)
    latestFrame,      \* the frame kept for get-screencast-frame, None when null
    unread,           \* history: the screencast in progress produced a frame not yet asked for
    callBudget,       \* the number of tool calls a behaviour is followed for
    stale             \* history: latestFrame holds a frame older than the last one produced

\* The timeline app: the state of the TimelineApp component.
VARIABLES
    uiCopy,            \* which copy of the component runs
    data,              \* the steps of the tool result shown, None before any
    expandedSteps,     \* the set of numbers the expanded cards are looked up in
    activeStepIndex,   \* the array index of the active step
    isAutoPlaying,
    scrollSyncEnabled,
    syncTimerPending,  \* a setTimeout of selectStep has yet to fire
    observer,          \* the scroll effect has an IntersectionObserver installed
    interval,          \* the auto-play effect has its interval installed
    ticks,             \* history: ticks of the interval since the last other event
    lastUi,            \* history: the event the component handled last
    error,             \* the error state of the component, None when null
    lastReplay         \* history: the card whose replay ended last, and what it did

uiVars == <<uiCopy, data, expandedSteps, activeStepIndex, isAutoPlaying, scrollSyncEnabled,
            syncTimerPending, observer, interval, ticks, lastUi, error, lastReplay>>

runVars == <<actions, opts, handles, steps, i, pc, calls, trace, shots, replayed, nReplay,
             twinOn, actions2, steps2>>

castVars == <<cdpSession, screencastActive, cpc, closing, nStarts, lastStart, lastClose,
              teardown, nSessions, live, casting, asked, stopped, nFrames, outstanding,
              event, delivered, acked, dropped>>

serverVars == <<runner, currentSteps, isHeadless, isRecordingVideo, open,
                recordVideo, runnerHeadless, castModes, lastCall, closedSince, closedARunner, peakOpen, nCalls, lastResult, lastVideo,
                screencastFrameCallback, latestFrame, unread, callBudget, stale>>

\* Tool handlers followed await by await.
VARIABLES
    closePc,           \* where the close-browser handler in progress is, "idle" when none is
    pageGone,          \* browser side: the page of the current runner has closed
    videoPath          \* the handler's local videoPath, None when null

closeVars == <<closePc, pageGone, videoPath>>

\* Two playwright-run handlers that may overlap, and the runner each makes.
VARIABLES
    hpc,               \* per handler: "idle", "close", "launch", "steps" or "done"
    held,              \* the runner object the module's `runner` refers to, 0 when null
    browserOf,         \* per runner object: its browser is "none", "open" or "closed"
    req,               \* per handler: the actions it was called with
    stepsOwner         \* history: the handler whose steps currentSteps holds, 0 when none

overlapVars == <<hpc, held, browserOf, req, stepsOwner>>

asyncVars == <<closeVars, overlapVars>>

\* The variables the actions of run() and replayStep leave alone.
notRun == <<castVars, serverVars, uiVars, asyncVars>>

\* The variables the actions of the screencast leave alone.
notCast == <<runVars, serverVars, uiVars, asyncVars>>

vars == <<runVars, castVars, serverVars, uiVars, asyncVars>>

----------------------------------------------------------------------------
\* Optional values and strings

None == <<>>
Some(x) == <<x>>

Min(a, b) == IF a < b THEN a ELSE b

\* s.includes(sub)
Includes(s, sub) ==
    \E k \in 0..(Len(s) - Len(sub)) : SubSeq(s, k + 1, k + Len(sub)) = sub

\* The upper-case letters of the sample selectors and their lower-case forms.
LowerOf == ("P" :> "p") @@ ("W" :> "w") @@ ("T" :> "t")

\* s.toLowerCase()
ToLowerCase(s) ==
    [k \in 1..Len(s) |-> IF s[k] \in DOMAIN LowerOf THEN LowerOf[s[k]] ELSE s[k]]

\* c.repeat(n)
Repeat(c, n) == [k \in 1..n |-> c]

\* JavaScript truthiness of an optional string: undefined and "" are falsy.
Truthy(o) == o # None /\ o[1] # <<>>

\* The masking character of maskValue, U+2022 (written here in ASCII).
Bullet == "*"

----------------------------------------------------------------------------
\* Sample strings

SelPasswordId == <<"#","p","a","s","s","w","o","r","d">>
SelMixedCase  == <<"#","P","a","s","s","W","o","r","d">>
SelTypeQuoted == <<"[","t","y","p","e","=","\"","p","a","s","s","w","o","r","d","\"","]">>
SelTypeBare   == <<"[","t","y","p","e","=","p","a","s","s","w","o","r","d","]">>
SelUser       == <<"#","u","s","e","r">>
SelPass       == <<"#","p","a","s","s">>
SelEmpty      == <<>>

Url == <<"u">>

\* Selectors an action may carry (undefined included).
Selectors ==
    {None} \cup {Some(s) : s \in {SelPasswordId, SelMixedCase, SelTypeQuoted,
                                  SelTypeBare, SelUser, SelPass, SelEmpty}}

\* The length above which maskValue caps the mask.
MaskCap == 12

\* Characters of sample values (the masking character itself included).
ValChars == {"a", "b", Bullet}

\* Sample value strings: the empty string, and strings of every sample
\* character just below, at and above the cap.
ValStrings ==
    {<<>>} \cup {Repeat(c, n) : c \in ValChars, n \in {1, MaskCap, MaskCap + 1}}

Values == {None} \cup {Some(v) : v \in ValStrings}

\* Wall-clock durations a step may measure (Date.now() differences).
Durations == {0, 7}

----------------------------------------------------------------------------
\* PlaywrightRunner: maskValue, performAction, executeStep

\* The selector test of maskValue.
isPasswordField(selector) ==
    /\ Truthy(selector)
    /\ \/ Includes(selector[1], SelTypeQuoted)
       \/ Includes(selector[1], SelTypeBare)
       \/ Includes(ToLowerCase(selector[1]), <<"p","a","s","s","w","o","r","d">>)
       \/ Includes(selector[1], SelPasswordId)
       \/ Includes(selector[1], <<".","p","a","s","s","w","o","r","d">>)

\* A plausible slip: the mask is as long as the value, without the cap.
maskValueUncapped(value, selector) ==
    IF ~Truthy(value) THEN value
    ELSE IF isPasswordField(selector)
         THEN Some(Repeat(Bullet, Len(value[1])))
         ELSE value

\* maskValue(value, selector): undefined and "" are returned as they are.
maskValue(value, selector) ==
    IF ~Truthy(value) THEN value
    ELSE IF isPasswordField(selector)
         THEN Some(Repeat(Bullet, Min(Len(value[1]), MaskCap)))
         ELSE value

\* Error messages
ErrNoPage     == "No active page"
ErrBrowser    == "Timeout 5000ms exceeded"
ErrScreenshot == "page.screenshot: failed"

ActionTypes == {"click", "fill", "wait", "screenshot", "hover", "select", "navigate"}

\* The decimal digits and their values.
DigitOf == ("0" :> 0) @@ ("1" :> 1) @@ ("2" :> 2) @@ ("3" :> 3) @@ ("4" :> 4)
           @@ ("5" :> 5) @@ ("6" :> 6) @@ ("7" :> 7) @@ ("8" :> 8) @@ ("9" :> 9)

\* The value of a sequence of digits.
RECURSIVE DigitsValue(_)
DigitsValue(ds) ==
    IF ds = <<>> THEN 0
    ELSE 10 * DigitsValue(SubSeq(ds, 1, Len(ds) - 1)) + DigitOf[ds[Len(ds)]]

\* The longest prefix of s made of digits.
RECURSIVE DigitPrefix(_)
DigitPrefix(s) ==
    IF s = <<>> \/ s[1] \notin DOMAIN DigitOf THEN <<>>
    ELSE <<s[1]>> \o DigitPrefix(Tail(s))

\* s without its leading blanks.
RECURSIVE TrimStart(_)
TrimStart(s) == IF s # <<>> /\ s[1] = " " THEN TrimStart(Tail(s)) ELSE s

\* parseInt(s, 10): leading blanks are skipped, a sign is read, then the
\* digits up to the first other character; None stands for NaN.
parseInt(str) ==
    LET t == TrimStart(str)
        signed == t # <<>> /\ t[1] \in {"+", "-"}
        ds == DigitPrefix(IF signed THEN Tail(t) ELSE t)
    IN  IF ds = <<>> THEN None
        ELSE Some((IF signed /\ t[1] = "-" THEN -1 ELSE 1) * DigitsValue(ds))

\* The fixed delay of a wait action.
DefaultWait == 1000

\* The wait branch of performAction: the browser primitive it calls.
\* parseInt(value, 10) || 1000 gives 1000 for NaN and for 0.
waitPrimitive(action) ==
    IF Truthy(action.selector)
    THEN [op |-> "waitForSelector", selector |-> action.selector, ms |-> None]
    ELSE IF Truthy(action.value)
    THEN LET n == parseInt(action.value[1])
         IN  [op |-> "waitForTimeout", selector |-> None,
              ms |-> IF n = None \/ n = Some(0) THEN Some(DefaultWait) ELSE n]
    ELSE [op |-> "waitForTimeout", selector |-> None, ms |-> Some(DefaultWait)]

\* `Selector required for ${type}` and `Value required for ${type}`.
SelectorRequired ==
    ("click" :> "Selector required for click") @@ ("fill" :> "Selector required for fill")
    @@ ("hover" :> "Selector required for hover") @@ ("select" :> "Selector required for select")

ValueRequired ==
    ("fill" :> "Value required for fill") @@ ("select" :> "Value required for select")

\* A plausible slip: fill and select without their test of the value.
preconditionNoValueTest(action) ==
    CASE action.type \in {"click", "fill", "hover", "select"} ->
            IF ~Truthy(action.selector)
            THEN Some(SelectorRequired[action.type])
            ELSE None
      [] action.type = "navigate" ->
            IF ~Truthy(action.value) THEN Some("URL required for navigate") ELSE None
      [] action.type \in {"wait", "screenshot"} -> None
      [] OTHER -> Some("Unknown action type")

\* What performAction throws before it calls any browser primitive: the
\* message in parts, None when it gets to the call.
precondition(action) ==
    CASE action.type \in {"click", "hover"} ->
            IF ~Truthy(action.selector)
            THEN Some(SelectorRequired[action.type])
            ELSE None
      [] action.type \in {"fill", "select"} ->
            IF ~Truthy(action.selector)
            THEN Some(SelectorRequired[action.type])
            ELSE IF action.value = None
            THEN Some(ValueRequired[action.type])
            ELSE None
      [] action.type = "navigate" ->
            IF ~Truthy(action.value) THEN Some("URL required for navigate") ELSE None
      [] action.type \in {"wait", "screenshot"} -> None
      [] OTHER -> Some("Unknown action type")

\* The browser primitive performAction calls once the page and the fields are
\* there; None for a screenshot action, which calls none.
primitive(action) ==
    CASE action.type = "click" ->
            Some([op |-> "click", selector |-> action.selector, ms |-> None])
      [] action.type = "fill" ->
            Some([op |-> "fill", selector |-> action.selector, ms |-> None])
      [] action.type = "hover" ->
            Some([op |-> "hover", selector |-> action.selector, ms |-> None])
      [] action.type = "select" ->
            Some([op |-> "selectOption", selector |-> action.selector, ms |-> None])
      [] action.type = "wait" -> Some(waitPrimitive(action))
      [] action.type = "navigate" ->
            Some([op |-> "goto", selector |-> None, ms |-> None])
      [] OTHER -> None

\* The browser primitive that performAction(action) does call, None when it
\* throws before or calls none.
performActionCalls(action, page) ==
    IF ~page \/ precondition(action) # None THEN None ELSE primitive(action)

\* performAction(action): None when it resolves, Some(message) when it throws.
\* page: this.page is set; browserThrows: the browser primitive it calls rejects.
performAction(action, page, browserThrows) ==
    IF ~page THEN Some(ErrNoPage)
    ELSE IF precondition(action) # None THEN precondition(action)
    ELSE IF primitive(action) # None /\ browserThrows THEN Some(ErrBrowser)
    ELSE None

\* What the environment decides during one executeStep call:
\*   throws   the browser primitive of the action rejects,
\*   shotTry  the screenshot taken after the action succeeds,
\*   shotErr  the screenshot taken while handling a failure succeeds,
\*   d        the measured duration.
Envs == [throws : BOOLEAN, shotTry : BOOLEAN, shotErr : BOOLEAN, d : Durations]

\* executeStep(metadata, action, captureScreenshot): `thrown` is what action()
\* threw (None when it resolved), `shot` names the screenshot a capture returns.
executeStep(metadata, thrown, captureScreenshot, page, env, shot) ==
    LET failed(msg) ==
            [index |-> metadata.index, type |-> metadata.type,
             selector |-> metadata.selector, value |-> metadata.value,
             status |-> "failed", duration |-> env.d, error |-> Some(msg),
             screenshot |-> IF page /\ env.shotErr THEN Some(shot) ELSE None]
    IN  IF thrown = None
        THEN IF captureScreenshot /\ page
             THEN IF env.shotTry
                  THEN [index |-> metadata.index, type |-> metadata.type,
                        selector |-> metadata.selector, value |-> metadata.value,
                        status |-> "passed", duration |-> env.d, error |-> None,
                        screenshot |-> Some(shot)]
                  ELSE failed(ErrScreenshot)
             ELSE [index |-> metadata.index, type |-> metadata.type,
                   selector |-> metadata.selector, value |-> metadata.value,
                   status |-> "passed", duration |-> env.d, error |-> None,
                   screenshot |-> None]
        ELSE failed(thrown[1])

----------------------------------------------------------------------------
\* PlaywrightRunner.run

\* Bound: the longest action list given to run().
MaxActions == 2

\* Bound: the number of replayStep calls after a run.
MaxReplays == 1

\* Bound: the longest action list of a run whose steps are replayed.
MaxReplayActions == 1

\* Bound: the number of actions put before the fill action of a masked run.
MaxContext == 0

Action(t, sel, val) == [type |-> t, selector |-> sel, value |-> val, timeout |-> None]

\* A wait action, which may carry the optional timeout field.
WaitAction(sel, val, timeout) ==
    [type |-> "wait", selector |-> sel, value |-> val, timeout |-> timeout]

ClickUser     == Action("click", Some(SelUser), None)
ClickNoSel    == Action("click", None, None)
FillPassword  == Action("fill", Some(SelPasswordId), Some(<<"a">>))
Screenshot    == Action("screenshot", None, None)
WaitMs        == Action("wait", None, Some(<<"7">>))

\* Sample actions of a run.
RunActions == {ClickUser, ClickNoSel, FillPassword, Screenshot, WaitMs}

\* Sample actions of a run whose steps are replayed.
ReplayActions ==
    {ClickUser, ClickNoSel, FillPassword, Screenshot,
     Action("select", Some(SelUser), Some(<<"a">>)),
     Action("fill", Some(SelUser), None)}

\* Sequences over S of length at most n.
SeqsUpTo(S, n) == UNION {[1..m -> S] : m \in 0..n}

NullHandles == [browser |-> FALSE, context |-> FALSE, page |-> FALSE]

\* A plausible slip: the action's index is its position plus one.
runIndexOffByOne(idx) == idx + 1

\* stepIndex of the loop of run().
runStepIndex(idx) == idx + 2

\* The metadata run() gives executeStep for actions[idx] (idx counted from 0).
runMetadata(action, idx) ==
    [index |-> runStepIndex(idx), type |-> action.type, selector |-> action.selector,
     value |-> IF action.type = "fill"
               THEN maskValue(action.value, action.selector)
               ELSE action.value]

\* A plausible slip: only the step just before decides the skip.
runSkipsLast(sts, action) ==
    /\ sts[Len(sts)].status = "failed"
    /\ action.type # "screenshot"

\* The skip test of the loop of run().
runSkips(sts, action) ==
    /\ \E k \in 1..Len(sts) : sts[k].status = "failed"
    /\ action.type # "screenshot"

\* One iteration of the loop of run(): the step pushed for actions[idx].
runIteration(sts, action, idx, o, page, env, shot) ==
    LET meta == runMetadata(action, idx)
    IN  IF runSkips(sts, action)
        THEN [index |-> meta.index, type |-> meta.type, selector |-> meta.selector,
              value |-> meta.value, status |-> "skipped", duration |-> 0,
              error |-> None, screenshot |-> None]
        ELSE executeStep(meta, performAction(action, page, env.throws),
                         o.captureScreenshots
                            \/ (o.screenshotOnFailure /\ action.type # "screenshot"),
                         page, env, shot)

\* The implicit first step of run(): page.goto(url).
runNavStep(o, page, env, shot) ==
    executeStep([index |-> 1, type |-> "navigate", selector |-> None, value |-> Some(Url)],
                IF env.throws THEN Some(ErrBrowser) ELSE None,
                o.captureScreenshots, page, env, shot)

\* The environment of the second run: it may answer the action differently.
TwinEnvs(env) == IF twinOn THEN {[env EXCEPT !.throws = t] : t \in BOOLEAN} ELSE {env}

\* run() is called, while no other call on the runner is in progress.
\* chromium.launch, browser.newContext, context.newPage: each may reject, and
\* run() then throws with the handles obtained so far left set.
RunLaunch ==
    /\ pc = "launch"
    /\ cpc = "idle"
    /\ \E got \in {"none", "browser", "context", "page"} :
          /\ handles' = [browser |-> got # "none",
                         context |-> got \in {"context", "page"},
                         page    |-> got = "page"]
          /\ pc' = IF got = "page" THEN "navigate" ELSE "threw"
    /\ UNCHANGED <<actions, opts, steps, i, calls, trace, shots, replayed, nReplay,
                   twinOn, actions2, steps2>>
    /\ UNCHANGED notRun

RunNavigate ==
    /\ pc = "navigate"
    /\ \E env \in Envs : \E env2 \in TwinEnvs(env) :
          LET nav == runNavStep(opts, handles.page, env, shots + 1)
          IN  /\ steps' = <<nav>>
              /\ steps2' = IF twinOn
                           THEN <<runNavStep(opts, handles.page, env2, shots + 1)>>
                           ELSE steps2
              /\ shots' = shots + 1
              /\ trace' = <<[pos |-> -1,
                             thrown |-> IF env.throws THEN Some(ErrBrowser) ELSE None,
                             called |-> Some([op |-> "goto", selector |-> None,
                                              ms |-> None])]>>
    /\ i' = 0
    /\ pc' = "loop"
    /\ UNCHANGED <<actions, opts, handles, calls, replayed, nReplay, twinOn, actions2>>
    /\ UNCHANGED notRun

RunAction ==
    /\ pc = "loop"
    /\ i < Len(actions)
    /\ \E env \in Envs : \E env2 \in TwinEnvs(env) :
          LET step == runIteration(steps, actions[i + 1], i, opts, handles.page,
                                   env, shots + 1)
          IN  /\ steps' = Append(steps, step)
              /\ steps2' = IF twinOn
                           THEN Append(steps2,
                                       runIteration(steps2, actions2[i + 1], i, opts,
                                                    handles.page, env2, shots + 1))
                           ELSE steps2
              /\ calls' = IF runSkips(steps, actions[i + 1]) THEN calls
                          ELSE Append(calls, i)
              /\ trace' = IF runSkips(steps, actions[i + 1]) THEN trace
                          ELSE Append(trace,
                                      [pos |-> i,
                                       thrown |-> performAction(actions[i + 1],
                                                                handles.page, env.throws),
                                       called |-> performActionCalls(actions[i + 1],
                                                                     handles.page)])
              /\ shots' = shots + 1
    /\ i' = i + 1
    /\ UNCHANGED <<actions, opts, handles, pc, replayed, nReplay, twinOn, actions2>>
    /\ UNCHANGED notRun

RunReturn ==
    /\ pc = "loop"
    /\ ~(i < Len(actions))
    /\ pc' = "done"
    /\ UNCHANGED <<actions, opts, handles, steps, i, calls, trace, shots, replayed, nReplay,
                   twinOn, actions2, steps2>>
    /\ UNCHANGED notRun

----------------------------------------------------------------------------
\* PlaywrightRunner.replayStep

\* A plausible slip: the whole previous result is spread into the metadata, so
\* a field the new execution does not set keeps its old content.
replayStepSpread(step, page, env, shot) ==
    IF ~page
    THEN [threw |-> Some(ErrNoPage), result |-> None]
    ELSE LET new == executeStep(step,
                                performAction(Action(step.type, step.selector, step.value),
                                              page, env.throws),
                                TRUE, page, env, shot)
         IN  [threw |-> None,
              result |-> Some(IF new.status = "passed"
                              THEN [new EXCEPT !.error = step.error]
                              ELSE new)]

\* replayStep(step): throws when no page is set, else executes the action
\* rebuilt from the step's type, selector and value, always with a screenshot.
replayStep(step, page, env, shot) ==
    IF ~page
    THEN [threw |-> Some(ErrNoPage), result |-> None]
    ELSE [threw |-> None,
          result |-> Some(executeStep(
                        [index |-> step.index, type |-> step.type,
                         selector |-> step.selector, value |-> step.value],
                        performAction(Action(step.type, step.selector, step.value),
                                      page, env.throws),
                        TRUE, page, env, shot))]

\* A caller replays one of the steps run() returned.
Replay ==
    /\ pc = "done"
    /\ nReplay < MaxReplays
    /\ \E k \in 1..Len(steps) : \E env \in Envs :
          replayed' = Some([pos |-> k, step |-> steps[k], env |-> env, shot |-> shots + 1,
                            call |-> replayStep(steps[k], handles.page, env, shots + 1)])
    /\ shots' = shots + 1
    /\ nReplay' = nReplay + 1
    /\ UNCHANGED <<actions, opts, handles, steps, i, pc, calls, trace, twinOn, actions2, steps2>>
    /\ UNCHANGED notRun

----------------------------------------------------------------------------
\* Specifications of run() and replayStep

RunOptions == [captureScreenshots : BOOLEAN, screenshotOnFailure : BOOLEAN]

\* The defaults of run(): both options on.
DefaultOptions == [captureScreenshots |-> TRUE, screenshotOnFailure |-> TRUE]

\* A new runner: no session, no screencast, no call in progress.
InitCast ==
    /\ cdpSession = 0
    /\ screencastActive = FALSE
    /\ cpc = "idle"
    /\ closing = FALSE
    /\ nStarts = 0
    /\ lastStart = None
    /\ lastClose = None
    /\ teardown = <<>>
    /\ nSessions = 0
    /\ live = {}
    /\ casting = {}
    /\ asked = {}
    /\ stopped = {}
    /\ nFrames = 0
    /\ outstanding = None
    /\ event = None
    /\ delivered = <<>>
    /\ acked = <<>>
    /\ dropped = {}

\* server.ts lines 28-33: the module's session state as it is initialised.
InitSession ==
    /\ runner = FALSE
    /\ currentSteps = <<>>
    /\ isHeadless = TRUE
    /\ isRecordingVideo = FALSE
    /\ open = 0
    /\ runnerHeadless = TRUE
    /\ castModes = {}
    /\ lastCall = None
    /\ closedSince = FALSE
    /\ closedARunner = FALSE
    /\ peakOpen = 0
    /\ nCalls = 0
    /\ lastResult = None
    /\ lastVideo = None
    /\ screencastFrameCallback = TRUE
    /\ latestFrame = None
    /\ unread = FALSE
    /\ stale = FALSE

\* Bound: the number of tool calls.
MaxCalls == 3

\* The runner's options: recordVideo is false unless the caller sets it.
InitServer ==
    /\ InitSession
    /\ recordVideo = FALSE
    /\ callBudget = MaxCalls

\* The two copies of the timeline component.
UiBuilt == "src/TimelineApp.tsx"
UiOther == "unnamed/part_002"
UiCopies == {UiBuilt, UiOther}

\* The component as it mounts: the initial values of its useState hooks and
\* the effects of the first render. In the second copy scrollSyncEnabled is a
\* constant false.
InitApp(copy) ==
    /\ uiCopy = copy
    /\ data = None
    /\ expandedSteps = {}
    /\ activeStepIndex = 0
    /\ isAutoPlaying = FALSE
    /\ scrollSyncEnabled = (copy = UiBuilt)
    /\ syncTimerPending = FALSE
    /\ observer = FALSE
    /\ interval = FALSE
    /\ ticks = 0
    /\ lastUi = None
    /\ error = None
    /\ lastReplay = None

\* No tool handler is in progress.
InitAsync ==
    /\ closePc = "idle"
    /\ pageGone = FALSE
    /\ videoPath = None
    /\ hpc = [h \in {1, 2} |-> "idle"]
    /\ held = 0
    /\ browserOf = [h \in {1, 2} |-> "none"]
    /\ req = [h \in {1, 2} |-> <<>>]
    /\ stepsOwner = 0

InitFields ==
    /\ InitCast
    /\ InitAsync
    /\ handles = NullHandles
    /\ steps = <<>>
    /\ i = 0
    /\ pc = "launch"
    /\ calls = <<>>
    /\ trace = <<>>
    /\ shots = 0
    /\ replayed = None
    /\ nReplay = 0
    /\ steps2 = <<>>

InitRunner ==
    /\ InitServer
    /\ InitFields
    /\ InitApp(UiBuilt)

\* run(url, actions, options) on a new runner, for every sample action list.
InitRun ==
    /\ actions \in SeqsUpTo(RunActions, MaxActions)
    /\ opts \in RunOptions
    /\ twinOn = FALSE
    /\ actions2 = <<>>
    /\ InitRunner

NextRun == RunLaunch \/ RunNavigate \/ RunAction \/ RunReturn

SpecRun == InitRun /\ [][NextRun]_vars

\* Actions that may precede the fill action of a masked run: one that always
\* fails and one that is never skipped.
ContextActions == {ClickNoSel, Screenshot}

\* The values a second run may give the fill action: the same value, or, for a
\* selector maskValue takes for a password field, any value of the same length.
TwinValues(sel, val) ==
    IF val # None /\ isPasswordField(sel)
    THEN {Some(v) : v \in {w \in ValStrings : Len(w) = Len(val[1])}}
    ELSE {val}

\* Two runs whose action lists end in a fill action and differ at most in the
\* characters of the value given to a password field.
InitMask ==
    /\ \E prefix \in SeqsUpTo(ContextActions, MaxContext) :
       \E sel \in Selectors : \E val \in Values : \E val2 \in TwinValues(sel, val) :
          /\ actions = Append(prefix, Action("fill", sel, val))
          /\ actions2 = Append(prefix, Action("fill", sel, val2))
    /\ opts = DefaultOptions
    /\ twinOn = TRUE
    /\ InitRunner

SpecMask == InitMask /\ [][NextRun]_vars


\* A run with the default options, then replayStep on the steps it returned.
InitReplay ==
    /\ actions \in SeqsUpTo(ReplayActions, MaxReplayActions)
    /\ opts = DefaultOptions
    /\ twinOn = FALSE
    /\ actions2 = <<>>
    /\ InitRunner

NextReplay == RunLaunch \/ RunNavigate \/ RunAction \/ RunReturn \/ Replay

SpecReplay == InitReplay /\ [][NextReplay]_vars

----------------------------------------------------------------------------
\* Properties of run(), maskValue and replayStep

\* The elements of a sequence.
Range(s) == {s[k] : k \in 1..Len(s)}

\* C1: in run(), the result of an action has status skipped exactly when some
\* earlier step of the run (the navigation included) has status failed and the
\* action is not a screenshot; a skipped result has duration 0 and its action
\* was not executed, and every other action was executed.
C1_SkippedIffEarlierFailure ==
    \A k \in 2..Len(steps) :
        /\ steps[k].status = "skipped"
              <=> /\ \E j \in 1..(k - 1) : steps[j].status = "failed"
                  /\ actions[k - 1].type # "screenshot"
        /\ steps[k].status = "skipped"
              => steps[k].duration = 0 /\ (k - 2) \notin Range(calls)
        /\ steps[k].status # "skipped" => (k - 2) \in Range(calls)

\* C1, its case: after a failed navigation a screenshot action is executed and
\* the action after it is skipped.
C1_Witness ==
    /\ pc = "done"
    /\ Len(steps) = 3
    /\ steps[1].status = "failed"
    /\ steps[2].type = "screenshot" /\ steps[2].status = "passed"
    /\ steps[3].status = "skipped"

\* C2: run(url, actions) returns len(actions)+1 results in list order: the
\* navigation first with index 1, then the result of actions[i] with index
\* i+2, so that the indices are 1..len(actions)+1 without gap or duplicate.
C2_IndicesInListOrder ==
    /\ \A k \in 1..Len(steps) : steps[k].index = k
    /\ Len(steps) >= 1 => steps[1].type = "navigate" /\ steps[1].value = Some(Url)
    /\ \A k \in 2..Len(steps) :
          /\ steps[k].type = actions[k - 1].type
          /\ steps[k].selector = actions[k - 1].selector
    /\ pc = "done" => Len(steps) = Len(actions) + 1

\* C2, its case: a run of two actions has returned one passed, one failed and
\* one skipped step.
C2_Witness ==
    /\ pc = "done"
    /\ Len(actions) = 2
    /\ steps[1].status = "passed"
    /\ steps[2].status = "failed"
    /\ steps[3].status = "skipped"

\* The password heuristic of property C3: 'password' in any letter
\* case, or [type=password] with or without quotes.
PasswordHeuristic(sel) ==
    /\ sel # None
    /\ \/ Includes(ToLowerCase(sel[1]), <<"p","a","s","s","w","o","r","d">>)
       \/ Includes(sel[1], SelTypeBare)
       \/ Includes(sel[1], SelTypeQuoted)

AllBullets(v) == \A n \in 1..Len(v) : v[n] = Bullet

\* The steps of the first run that result from a fill action with a value
\* whose selector matches the password heuristic.
PasswordFillSteps ==
    {k \in 2..Len(steps) :
        /\ actions[k - 1].type = "fill"
        /\ actions[k - 1].value # None
        /\ PasswordHeuristic(actions[k - 1].selector)}

\* C3 as stated: the value field of a password fill is a string of bullets of
\* length min(len(value), 12), is never the original value, and is the same
\* in two runs that differ only in the characters of the value.
C3_NeverTheOriginalValue ==
    \A k \in PasswordFillSteps :
        /\ steps[k].value
              = Some(Repeat(Bullet, Min(Len(actions[k - 1].value[1]), MaskCap)))
        /\ steps[k].value # actions[k - 1].value
        /\ steps2[k].value = steps[k].value

\* C3 amended: the value field of a password fill, whether the step passed,
\* failed or was skipped, is a string of bullets of length min(len(value), 12);
\* it equals the original value only when that value is empty or is itself at
\* most 12 bullets; two runs that differ only in the characters of the value
\* return the same value field.
C3_MaskedValue ==
    \A k \in PasswordFillSteps :
        /\ steps[k].status \in {"passed", "failed", "skipped"}
        /\ steps[k].value
              = Some(Repeat(Bullet, Min(Len(actions[k - 1].value[1]), MaskCap)))
        /\ steps[k].value = actions[k - 1].value
              <=> /\ AllBullets(actions[k - 1].value[1])
                  /\ Len(actions[k - 1].value[1]) <= MaskCap
        /\ steps2[k].value = steps[k].value

\* C3, its case: two finished runs gave a password field two different values
\* longer than the cap; the fill passed in one run and failed in the other.
C3_Witness ==
    /\ pc = "done"
    /\ PasswordFillSteps # {}
    /\ \E k \in PasswordFillSteps :
          /\ Len(actions[k - 1].value[1]) > MaskCap
          /\ actions2[k - 1].value # actions[k - 1].value
          /\ steps[k].status = "passed"
          /\ steps2[k].status = "failed"

\* A step result with its outcome erased.
EraseOutcome(step) ==
    [step EXCEPT !.status = "passed", !.duration = 0, !.error = None,
                 !.screenshot = None]

\* C4: replayStep(step) returns a result with the index, type, selector and
\* value of the given step, whose status, duration, error and screenshot come
\* from the new execution alone: a passed replay has no error, a screenshot
\* it carries is the one just captured, and the result is the one that the
\* same step with its old outcome erased would give.
C4_ReplayCarriesNoOldOutcome ==
    (replayed # None /\ replayed[1].call.threw = None) =>
        LET old == replayed[1].step
            new == replayed[1].call.result[1]
        IN  /\ new.index = old.index
            /\ new.type = old.type
            /\ new.selector = old.selector
            /\ new.value = old.value
            /\ new.status \in {"passed", "failed"}
            /\ new.duration = replayed[1].env.d
            /\ new.status = "passed" <=> new.error = None
            /\ new.screenshot \in {None, Some(replayed[1].shot)}
            /\ old.screenshot # None => new.screenshot # old.screenshot
            /\ replayed[1].call
                  = replayStep(EraseOutcome(old), handles.page, replayed[1].env,
                               replayed[1].shot)

\* C4, its case: a step that had failed, with an error and a screenshot, was
\* replayed and passed.
C4_Witness ==
    /\ replayed # None
    /\ replayed[1].step.status = "failed"
    /\ replayed[1].step.error # None
    /\ replayed[1].step.screenshot # None
    /\ replayed[1].call.threw = None
    /\ replayed[1].call.result[1].status = "passed"

----------------------------------------------------------------------------
\* PlaywrightRunner: startScreencast, the Page.screencastFrame handler,
\* stopScreencast and close(), with the browser's side of the CDP session.
\*
\* The caller makes one call at a time, once run() is not in progress; what the
\* browser sends arrives at any time, also while a call awaits an answer.

\* Bound: the number of startScreencast calls.
MaxStarts == 2

\* Bound: the number of frames the browser produces.
MaxFrames == 2

\* run() is not in progress: not yet called, returned, or thrown.
CallerFree == cpc = "idle" /\ pc \in {"launch", "done", "threw"}

\* A plausible slip: startScreencast does not test for an active screencast.
startScreencastGuardNoActive(page, active) ==
    IF ~page THEN Some("No active page. Call run() first or create a page manually.")
    ELSE None

\* The two tests at the head of startScreencast: what it throws, None to go on.
startScreencastGuard(page, active) ==
    IF ~page THEN Some("No active page. Call run() first or create a page manually.")
    ELSE IF active THEN Some("Screencast already active")
    ELSE None

\* What a finished startScreencast call adds to the record made at the call.
StartOutcome(rec, thrown, cdp, active, sessions) ==
    [rec EXCEPT !.done = TRUE, !.threw = thrown,
                !.changed = (cdp # rec.cdp \/ active # rec.active
                             \/ sessions # rec.sessions)]

\* startScreencast(onFrame, options) is called.
CastStartCall ==
    /\ CallerFree
    /\ nStarts < MaxStarts
    /\ nStarts' = nStarts + 1
    /\ LET rec == [noPage |-> ~handles.page, wasActive |-> screencastActive,
                   cdp |-> cdpSession, active |-> screencastActive,
                   sessions |-> nSessions, done |-> FALSE, threw |-> None,
                   changed |-> FALSE]
           thrown == startScreencastGuard(handles.page, screencastActive)
       IN  IF thrown # None
           THEN /\ lastStart' = Some(StartOutcome(rec, thrown, cdpSession,
                                                  screencastActive, nSessions))
                /\ cpc' = "idle"
           ELSE /\ lastStart' = Some(rec)
                /\ cpc' = "start:newCDPSession"
    /\ UNCHANGED <<cdpSession, screencastActive, closing, lastClose, teardown, nSessions,
                   live, casting, asked, stopped, nFrames, outstanding, event,
                   delivered, acked, dropped>>
    /\ UNCHANGED notCast

\* await newCDPSession(page) returns: the session is stored, the frame handler
\* is registered and Page.startScreencast is sent. Or it rejects.
CastStartSession ==
    /\ cpc = "start:newCDPSession"
    /\ \/ /\ nSessions' = nSessions + 1
          /\ cdpSession' = nSessions + 1
          /\ live' = live \cup {nSessions + 1}
          /\ asked' = asked \cup {nSessions + 1}
          /\ cpc' = "start:send"
          /\ UNCHANGED lastStart
       \/ /\ lastStart' = Some(StartOutcome(lastStart[1], Some("newCDPSession failed"),
                                            cdpSession, screencastActive, nSessions))
          /\ cpc' = "idle"
          /\ UNCHANGED <<nSessions, cdpSession, live, asked>>
    /\ UNCHANGED <<screencastActive, closing, nStarts, lastClose, teardown, casting,
                   stopped, nFrames, outstanding, event, delivered, acked, dropped>>
    /\ UNCHANGED notCast

\* The browser answers Page.startScreencast: it starts the screencast of the
\* session, or refuses.
BrowserStartScreencast ==
    /\ cpc = "start:send"
    /\ \/ /\ cdpSession \in live
          /\ casting' = casting \cup {cdpSession}
          /\ cpc' = "start:answered"
       \/ /\ cpc' = "start:rejected"
          /\ UNCHANGED casting
    /\ UNCHANGED <<cdpSession, screencastActive, closing, nStarts, lastStart, lastClose,
                   teardown, nSessions, live, asked, stopped, nFrames, outstanding,
                   event, delivered, acked, dropped>>
    /\ UNCHANGED notCast

\* await send('Page.startScreencast') returns and the flag is set; or it throws,
\* and startScreencast throws with the session it created still stored.
CastStartResume ==
    /\ cpc \in {"start:answered", "start:rejected"}
    /\ screencastActive' = (cpc = "start:answered" \/ screencastActive)
    /\ lastStart' = Some(StartOutcome(lastStart[1],
                             IF cpc = "start:answered" THEN None
                             ELSE Some("Page.startScreencast failed"),
                             cdpSession, screencastActive', nSessions))
    /\ cpc' = "idle"
    /\ UNCHANGED <<cdpSession, closing, nStarts, lastClose, teardown, nSessions, live,
                   casting, asked, stopped, nFrames, outstanding, event, delivered,
                   acked, dropped>>
    /\ UNCHANGED notCast

\* The browser produces a frame on a session it screencasts, once the frame
\* before it has been acknowledged.
BrowserFrame ==
    /\ nFrames < MaxFrames
    /\ outstanding = None
    /\ \E s \in casting :
          /\ outstanding' = Some([session |-> s, no |-> nFrames + 1])
          /\ event' = Some([session |-> s, no |-> nFrames + 1])
    /\ nFrames' = nFrames + 1
    /\ UNCHANGED <<cdpSession, screencastActive, cpc, closing, nStarts, lastStart,
                   lastClose, teardown, nSessions, live, casting, asked, stopped,
                   delivered, acked, dropped>>
    /\ UNCHANGED notCast

\* The Page.screencastFrame event arrives. On a session that was detached
\* meanwhile no handler runs. Else the handler returns at once when the flag is
\* off; when it is on it gives the frame to onFrame and, the session and the
\* flag still being set, acknowledges it.
FrameEvent ==
    /\ event # None
    /\ LET f == [session |-> event[1].session, no |-> event[1].no,
                 afterStop |-> event[1].session \in stopped]
       IN  IF f.session \notin live
           THEN UNCHANGED <<delivered, acked, dropped, outstanding>>
           ELSE IF ~screencastActive
           THEN /\ dropped' = dropped \cup {f}
                /\ UNCHANGED <<delivered, acked, outstanding>>
           ELSE /\ delivered' = Append(delivered, f)
                /\ IF cdpSession # 0 /\ screencastActive
                   THEN /\ acked' = Append(acked, f.no)
                        /\ outstanding' = None
                   ELSE UNCHANGED <<acked, outstanding>>
                /\ UNCHANGED dropped
    /\ event' = None
    /\ UNCHANGED <<cdpSession, screencastActive, cpc, closing, nStarts, lastStart,
                   lastClose, teardown, nSessions, live, casting, asked, stopped,
                   nFrames>>
    /\ UNCHANGED notCast


\* The test at the head of stopScreencast: whether it returns at once.
stopScreencastReturnsAtOnce(active, cdp) == ~active \/ cdp = 0

\* stopScreencast() is called: it returns at once when no screencast is active
\* or no session is stored, else it sends Page.stopScreencast and awaits.
CastStopCall ==
    /\ CallerFree
    /\ stopped' = IF cdpSession # 0 THEN stopped \cup {cdpSession} ELSE stopped
    /\ cpc' = IF stopScreencastReturnsAtOnce(screencastActive, cdpSession)
              THEN "idle" ELSE "stop:send"
    /\ UNCHANGED <<cdpSession, screencastActive, closing, nStarts, lastStart, lastClose,
                   teardown, nSessions, live, casting, asked, nFrames, outstanding,
                   event, delivered, acked, dropped>>
    /\ UNCHANGED notCast

\* The browser answers Page.stopScreencast: the screencast of the session ends
\* (an error answer is one of a session that is gone, and is swallowed).
BrowserStopScreencast ==
    /\ cpc = "stop:send"
    /\ casting' = casting \ {cdpSession}
    /\ cpc' = "stop:answered"
    /\ UNCHANGED <<cdpSession, screencastActive, closing, nStarts, lastStart, lastClose,
                   teardown, nSessions, live, asked, stopped, nFrames, outstanding,
                   event, delivered, acked, dropped>>
    /\ UNCHANGED notCast

\* await send('Page.stopScreencast') is over: the flag is cleared and
\* cdpSession.detach() is called.
CastStopResume ==
    /\ cpc = "stop:answered"
    /\ screencastActive' = FALSE
    /\ cpc' = "stop:detach"
    /\ UNCHANGED <<cdpSession, closing, nStarts, lastStart, lastClose, teardown,
                   nSessions, live, casting, asked, stopped, nFrames, outstanding,
                   event, delivered, acked, dropped>>
    /\ UNCHANGED notCast

\* await detach() is over (its error swallowed): the session is gone and
\* this.cdpSession is cleared. stopScreencast returns, to close() when close()
\* called it.
CastStopDetached ==
    /\ cpc = "stop:detach"
    /\ live' = live \ {cdpSession}
    /\ casting' = casting \ {cdpSession}
    /\ outstanding' = IF outstanding # None /\ outstanding[1].session = cdpSession
                      THEN None ELSE outstanding
    /\ cdpSession' = 0
    /\ cpc' = IF closing THEN "close:page" ELSE "idle"
    /\ UNCHANGED <<screencastActive, closing, nStarts, lastStart, lastClose, teardown,
                   nSessions, asked, stopped, nFrames, event, delivered, acked, dropped>>
    /\ UNCHANGED notCast

\* close() is called: it stops an active screencast first.
CastCloseCall ==
    /\ CallerFree
    /\ closing' = TRUE
    /\ IF screencastActive
       THEN /\ teardown' = <<[step |-> "stopScreencast", error |-> FALSE]>>
            /\ stopped' = IF cdpSession # 0 THEN stopped \cup {cdpSession} ELSE stopped
            /\ cpc' = IF stopScreencastReturnsAtOnce(screencastActive, cdpSession)
                      THEN "close:page" ELSE "stop:send"
       ELSE /\ teardown' = <<>>
            /\ cpc' = "close:page"
            /\ UNCHANGED stopped
    /\ UNCHANGED <<cdpSession, screencastActive, nStarts, lastStart, lastClose, nSessions,
                   live, casting, asked, nFrames, outstanding, event, delivered, acked,
                   dropped>>
    /\ UNCHANGED notCast

\* if (this.page) { await this.page.close().catch(() => {}); this.page = null }
\* With the page, the browser's sessions on it go.
CastClosePage ==
    /\ cpc = "close:page"
    /\ IF handles.page
       THEN /\ \E err \in BOOLEAN :
                  teardown' = Append(teardown, [step |-> "page", error |-> err])
            /\ handles' = [handles EXCEPT !.page = FALSE]
            /\ live' = {}
            /\ casting' = {}
            /\ outstanding' = None
       ELSE UNCHANGED <<teardown, handles, live, casting, outstanding>>
    /\ cpc' = "close:context"
    /\ UNCHANGED <<cdpSession, screencastActive, closing, nStarts, lastStart, lastClose,
                   nSessions, asked, stopped, nFrames, event, delivered, acked, dropped>>
    /\ UNCHANGED <<actions, opts, steps, i, pc, calls, trace, shots, replayed, nReplay, twinOn,
                   actions2, steps2>>
    /\ UNCHANGED <<serverVars, uiVars, asyncVars>>

\* if (this.context) { await this.context.close().catch(() => {}); this.context = null }
CastCloseContext ==
    /\ cpc = "close:context"
    /\ IF handles.context
       THEN /\ \E err \in BOOLEAN :
                  teardown' = Append(teardown, [step |-> "context", error |-> err])
            /\ handles' = [handles EXCEPT !.context = FALSE]
       ELSE UNCHANGED <<teardown, handles>>
    /\ cpc' = "close:browser"
    /\ UNCHANGED <<cdpSession, screencastActive, closing, nStarts, lastStart, lastClose,
                   nSessions, live, casting, asked, stopped, nFrames, outstanding, event,
                   delivered, acked, dropped>>
    /\ UNCHANGED <<actions, opts, steps, i, pc, calls, trace, shots, replayed, nReplay, twinOn,
                   actions2, steps2>>
    /\ UNCHANGED <<serverVars, uiVars, asyncVars>>

\* if (this.browser) { await this.browser.close().catch(() => {}); this.browser = null }
\* and close() returns.
CastCloseBrowser ==
    /\ cpc = "close:browser"
    /\ IF handles.browser
       THEN /\ \E err \in BOOLEAN :
                  teardown' = Append(teardown, [step |-> "browser", error |-> err])
            /\ handles' = [handles EXCEPT !.browser = FALSE]
       ELSE UNCHANGED <<teardown, handles>>
    /\ lastClose' = Some([handles |-> handles', cdpSession |-> cdpSession,
                          screencastActive |-> screencastActive, threw |-> FALSE,
                          teardown |-> teardown'])
    /\ closing' = FALSE
    /\ cpc' = "idle"
    /\ UNCHANGED <<cdpSession, screencastActive, nStarts, lastStart, nSessions, live,
                   casting, asked, stopped, nFrames, outstanding, event, delivered, acked,
                   dropped>>
    /\ UNCHANGED <<actions, opts, steps, i, pc, calls, trace, shots, replayed, nReplay, twinOn,
                   actions2, steps2>>
    /\ UNCHANGED <<serverVars, uiVars, asyncVars>>

\* A runner as test-screencast.ts uses it: run(url, []) with the default
\* options, and startScreencast, stopScreencast and close() around it.
InitCastRun ==
    /\ actions = <<>>
    /\ opts = DefaultOptions
    /\ twinOn = FALSE
    /\ actions2 = <<>>
    /\ InitRunner

NextCast ==
    \/ RunLaunch \/ RunNavigate \/ RunReturn
    \/ CastStartCall \/ CastStartSession \/ BrowserStartScreencast \/ CastStartResume
    \/ BrowserFrame \/ FrameEvent
    \/ CastStopCall \/ BrowserStopScreencast \/ CastStopResume \/ CastStopDetached
    \/ CastCloseCall \/ CastClosePage \/ CastCloseContext \/ CastCloseBrowser

SpecCast == InitCastRun /\ [][NextCast]_vars

----------------------------------------------------------------------------
\* Properties of the screencast and of close()

\* Whether sequence s is a subsequence of sequence t (same order, gaps allowed).
IsSubsequence(s, t) ==
    \E f \in [1..Len(s) -> 1..Len(t)] :
        /\ \A k \in 1..Len(s) : s[k] = t[f[k]]
        /\ \A k \in 1..(Len(s) - 1) : f[k] < f[k + 1]

\* C7 as stated: close() stops an active screencast first, then closes the
\* page, the context and the browser, swallows their errors and never throws,
\* and when it returns page, context, browser and CDP session are all null and
\* the screencast is inactive.
C7_CloseLeavesNothingSet ==
    lastClose # None =>
        /\ ~lastClose[1].threw
        /\ IsSubsequence([k \in 1..Len(lastClose[1].teardown)
                             |-> lastClose[1].teardown[k].step],
                         <<"stopScreencast", "page", "context", "browser">>)
        /\ lastClose[1].handles = NullHandles
        /\ lastClose[1].cdpSession = 0
        /\ ~lastClose[1].screencastActive

\* C8 as stated: no frame that arrives after stopScreencast was invoked is
\* given to onFrame.
C8_NoFrameDeliveredAfterStop ==
    \A k \in 1..Len(delivered) : ~delivered[k].afterStop

\* C9 as stated: from the sending of Page.startScreencast until stopScreencast
\* is called, every frame event received is given to onFrame and acknowledged
\* exactly once, and the next frame is produced only after that; no frame is
\* dropped without acknowledgment.
C9_EveryFrameDeliveredAndAcked ==
    /\ \A f \in dropped : f.afterStop
    /\ \A k \in 1..Len(delivered) :
          ~delivered[k].afterStop
             => Cardinality({j \in 1..Len(acked) : acked[j] = delivered[k].no}) = 1
    /\ stopped = {} => nFrames <= Len(acked) + 1

----------------------------------------------------------------------------
\* server.ts: the tool handlers over the session state of the module.
\*
\* A tool call completes before the next one starts: each handler is one
\* step, and what it awaits from the browser is an input of the step. The
\* fields of the runner object that `runner` refers to are handles,
\* screencastActive and cdpSession.

\* Sample actions given to a run tool.
ToolActions == {ClickUser, ClickNoSel, FillPassword}

\* Sample action lists given to a run tool.
ToolActionLists == {<<>>} \cup {<<a>> : a \in ToolActions}

\* Sample step indexes given to replay-step: the steps of such a run, and one
\* past them.
StepIndexes == {0, 1, 2}

\* What the browser answers in a tool call: an action throws or not, the
\* screenshots succeed, the clock does not advance.
ToolEnvs == {env \in Envs : env.d = 0 /\ env.shotTry /\ env.shotErr}

\* How far the launch at the head of run() gets before it rejects.
LaunchOutcomes == {"none", "browser", "context", "page"}

\* The handles run() has set when the launch got that far.
LaunchHandles(got) ==
    [browser |-> got # "none",
     context |-> got \in {"context", "page"},
     page    |-> got = "page"]

\* run(url, actions, options) once the page exists, as a whole: the array it
\* returns. envs[k] is what the browser answers at step k, shot + k - 1 names
\* the screenshot of that step.
RECURSIVE runFrom(_, _, _, _, _, _)
runFrom(sts, acts, k, o, envs, shot) ==
    IF k > Len(acts) THEN sts
    ELSE runFrom(Append(sts, runIteration(sts, acts[k], k - 1, o, TRUE, envs[k + 1],
                                          shot + k)),
                 acts, k + 1, o, envs, shot)

run(acts, o, envs, shot) ==
    runFrom(<<runNavStep(o, TRUE, envs[1], shot)>>, acts, 1, o, envs, shot)

\* startScreencast as a whole. outcome is what the browser does: "ok",
\* "noSession" (newCDPSession rejects) or "rejected" (Page.startScreencast
\* rejects, the session created staying stored).
startScreencast(page, active, cdp, next, outcome) ==
    LET thrown == startScreencastGuard(page, active)
    IN  IF thrown # None
        THEN [threw |-> thrown, cdpSession |-> cdp, screencastActive |-> active]
        ELSE IF outcome = "noSession"
        THEN [threw |-> Some("newCDPSession failed"), cdpSession |-> cdp,
              screencastActive |-> active]
        ELSE IF outcome = "rejected"
        THEN [threw |-> Some("Page.startScreencast failed"), cdpSession |-> next,
              screencastActive |-> active]
        ELSE [threw |-> None, cdpSession |-> next, screencastActive |-> TRUE]

StartOutcomes == {"ok", "noSession", "rejected"}

\* stopScreencast as a whole: the flag and the session it leaves.
stopScreencast(active, cdp) ==
    IF stopScreencastReturnsAtOnce(active, cdp)
    THEN [cdpSession |-> cdp, screencastActive |-> active]
    ELSE [cdpSession |-> 0, screencastActive |-> FALSE]

\* close() as a whole: it stops the screencast when the flag is on, then
\* closes and clears page, context and browser.
close(h, active, cdp) ==
    LET s == IF active THEN stopScreencast(active, cdp)
             ELSE [cdpSession |-> cdp, screencastActive |-> active]
    IN  [handles |-> NullHandles, cdpSession |-> s.cdpSession,
         screencastActive |-> s.screencastActive]

\* A plausible slip: a run tool does not close the runner it replaces (as the
\* playwright-run handler of src/main.tsx does not).
keepsExistingRunner(hasRunner) == FALSE

\* if (runner) { await runner.close(); } at the head of playwright-run and of
\* run-with-preview: whether the runner in place is closed.
closesExistingRunner(hasRunner) == hasRunner

\* currentSteps.reduce((sum, s) => sum + s.duration, 0)
RECURSIVE SumDuration(_)
SumDuration(sts) ==
    IF sts = <<>> THEN 0 ELSE sts[1].duration + SumDuration(Tail(sts))

\* The result of a tool call: a result object, or an exception out of the
\* handler.
Returned(isError, text) == [isError |-> isError, threw |-> FALSE, text |-> text]
Thrown(text) == [isError |-> FALSE, threw |-> TRUE, text |-> text]

\* The record of a tool call: the tool, the state it found, its result.
CallOf(tool, res) ==
    Some([tool |-> tool, hadRunner |-> runner, afterClose |-> closedSince,
          openBefore |-> open,
          isError |-> res.isError, threw |-> res.threw, text |-> res.text])


\* A plausible slip: a summary that counts the passed steps among the steps
\* of the actions only, leaving the navigation step out.
summaryOfActionSteps(sts) ==
    [total  |-> Len(sts),
     passed |-> Cardinality({k \in 2..Len(sts) : sts[k].status = "passed"}),
     failed |-> Cardinality({k \in 1..Len(sts) : sts[k].status = "failed"}),
     totalDuration |-> SumDuration(sts)]

\* The summary a run tool computes from the steps.
summary(sts) ==
    [total  |-> Len(sts),
     passed |-> Cardinality({k \in 1..Len(sts) : sts[k].status = "passed"}),
     failed |-> Cardinality({k \in 1..Len(sts) : sts[k].status = "failed"}),
     totalDuration |-> SumDuration(sts)]

\* What playwright-run and run-with-preview return: a result that carries no
\* isError flag, with the steps and their summary as structured content. The
\* actions of the call are kept with it.
ToolResult(tool, acts, sts) ==
    Some([tool |-> tool, actions |-> acts, isError |-> FALSE, steps |-> sts,
          summary |-> summary(sts)])

\* The variables of run() that a tool handler leaves alone.
runRest == <<actions, opts, steps, i, pc, calls, trace, replayed, nReplay, twinOn, actions2,
             steps2>>

\* The variables of the screencast that a tool handler leaves alone.
castRest == <<cpc, closing, nStarts, lastStart, lastClose, teardown, live, casting,
              asked, stopped, nFrames, outstanding, event, delivered, acked, dropped>>

\* The number of browsers open once the runner in place has been closed, or
\* has not: close() closes the browser the runner holds.
OpenAfterClose(closed) ==
    IF closed /\ handles.browser
                /\ ~close(handles, screencastActive, cdpSession).handles.browser
    THEN open - 1
    ELSE open

\* The loop of run-with-preview: each action is replayed as a step whose
\* index is currentSteps.length, and its result is pushed.
RECURSIVE previewFrom(_, _, _, _, _)
previewFrom(sts, acts, k, envs, shot) ==
    IF k > Len(acts) THEN sts
    ELSE previewFrom(
             Append(sts,
                    replayStep([index |-> Len(sts), type |-> acts[k].type,
                                selector |-> acts[k].selector, value |-> acts[k].value,
                                status |-> "passed", duration |-> 0, error |-> None,
                                screenshot |-> None],
                               TRUE, envs[k + 1], shot + k).result[1]),
             acts, k + 1, envs, shot)

\* Tool playwright-run: closes the runner in place, makes a new one and runs
\* the actions on it. The handler throws when the launch rejects.
PlaywrightRun ==
    /\ nCalls < callBudget
    /\ \E headless \in BOOLEAN, video \in BOOLEAN, got \in LaunchOutcomes :
          LET h == LaunchHandles(got)
          IN  /\ open' = OpenAfterClose(closesExistingRunner(runner))
                            + (IF h.browser THEN 1 ELSE 0)
              /\ handles' = h
              /\ isHeadless' = headless
              /\ isRecordingVideo' = video
              /\ recordVideo' = video
              /\ runnerHeadless' = headless
              /\ IF h.page
                 THEN \E acts \in ToolActionLists :
                      \E envs \in [1..(Len(acts) + 1) -> ToolEnvs] :
                         /\ currentSteps' = run(acts, DefaultOptions, envs, 1)
                         /\ shots' = Len(acts) + 1
                         /\ lastCall' = CallOf("playwright-run",
                                               Returned(FALSE, "Executed"))
                         /\ lastResult' = ToolResult("playwright-run", acts,
                                                     currentSteps')
                 ELSE /\ shots' = 0
                      /\ UNCHANGED currentSteps
                      /\ lastCall' = CallOf("playwright-run", Thrown("launch failed"))
                      /\ lastResult' = None
    /\ peakOpen' = IF open' > peakOpen THEN open' ELSE peakOpen
    /\ runner' = TRUE
    /\ cdpSession' = 0
    /\ screencastActive' = FALSE
    /\ nSessions' = 0
    /\ closedSince' = FALSE
    /\ closedARunner' = FALSE
    /\ nCalls' = nCalls + 1
    /\ UNCHANGED castModes
    /\ UNCHANGED runRest
    /\ UNCHANGED <<lastVideo, callBudget, stale, uiVars, asyncVars>>
    /\ UNCHANGED <<screencastFrameCallback, latestFrame>>
    /\ unread' = FALSE
    /\ UNCHANGED castRest

\* Tool run-with-preview: closes the runner in place, makes a new one, runs the
\* navigation, starts the screencast, replays the actions one by one and stops
\* the screencast. On an exception it stops the screencast and rethrows.
RunWithPreview ==
    /\ nCalls < callBudget
    /\ \E headless \in BOOLEAN, got \in LaunchOutcomes :
          LET h == LaunchHandles(got)
          IN  /\ open' = OpenAfterClose(closesExistingRunner(runner))
                            + (IF h.browser THEN 1 ELSE 0)
              /\ handles' = h
              /\ runnerHeadless' = headless
              /\ IF ~h.page
                 THEN /\ shots' = 0
                      /\ UNCHANGED castModes
                      /\ cdpSession' = 0
                      /\ screencastActive' = FALSE
                      /\ nSessions' = 0
                      /\ UNCHANGED currentSteps
                      /\ lastCall' = CallOf("run-with-preview", Thrown("launch failed"))
                      /\ lastResult' = None
                      /\ UNCHANGED <<latestFrame, stale>>
                 ELSE \E outcome \in StartOutcomes :
                      \E acts \in IF outcome = "ok"
                                  THEN ToolActionLists ELSE {<<>>} :
                      \E envs \in [1..(Len(acts) + 1) -> ToolEnvs] :
                         LET nav == run(<<>>, DefaultOptions, envs, 1)
                             st == startScreencast(h.page, FALSE, 0, 1, outcome)
                             sp == stopScreencast(st.screencastActive, st.cdpSession)
                         IN  /\ cdpSession' = sp.cdpSession
                             /\ screencastActive' = sp.screencastActive
                             /\ nSessions' = IF outcome # "noSession" THEN 1 ELSE 0
                             /\ castModes' = IF st.threw = None
                                             THEN castModes \cup {headless}
                                             ELSE castModes
                             /\ stale' = FALSE
                             /\ latestFrame' \in IF st.threw = None
                                                  THEN {None, Some("frame")}
                                                  ELSE {None}
                             /\ IF st.threw # None
                                THEN /\ currentSteps' = nav
                                     /\ shots' = 1
                                     /\ lastCall' = CallOf("run-with-preview",
                                                           Thrown(st.threw[1]))
                                     /\ lastResult' = None
                                ELSE /\ currentSteps' = previewFrom(nav, acts, 1, envs, 1)
                                     /\ shots' = Len(acts) + 1
                                     /\ lastCall' = CallOf("run-with-preview",
                                               Returned(FALSE, "Executed with live preview"))
                                     /\ lastResult' =
                                           ToolResult("run-with-preview", acts,
                                                      currentSteps')
    /\ peakOpen' = IF open' > peakOpen THEN open' ELSE peakOpen
    /\ runner' = TRUE
    /\ recordVideo' = FALSE
    /\ closedSince' = FALSE
    /\ closedARunner' = FALSE
    /\ nCalls' = nCalls + 1
    /\ UNCHANGED <<isHeadless, isRecordingVideo>>
    /\ UNCHANGED runRest
    /\ UNCHANGED <<lastVideo, callBudget, uiVars, asyncVars>>
    /\ UNCHANGED screencastFrameCallback
    /\ unread' = FALSE
    /\ UNCHANGED castRest

\* saveVideo(path): None when the file is saved, Some(message) when it throws.
saveVideo(page, video, rejects) ==
    IF ~page THEN Some(ErrNoPage)
    ELSE IF ~video THEN Some("No video recording. Enable recordVideo in options.")
    ELSE IF rejects THEN Some("video.saveAs failed")
    ELSE None

\* A plausible slip: close-browser with the close and the reset inside the
\* try that saves the video, so that a failed save leaves the session as it is.
closeBrowserToolInsideTry(hasRunner, recording, saved) ==
    [closes    |-> hasRunner /\ (~recording \/ saved),
     videoPath |-> IF hasRunner /\ recording /\ saved
                   THEN Some("recording.webm") ELSE None]

\* The close-browser handler: whether it closes the runner and resets the
\* session, and the videoPath of its result. A failed save is logged only.
closeBrowserTool(hasRunner, recording, saved) ==
    [closes    |-> hasRunner,
     videoPath |-> IF hasRunner /\ recording /\ saved
                   THEN Some("recording.webm") ELSE None]

\* Tool close-browser: with a runner in place it tries to save the video when
\* one is recorded (an error is logged only), closes the runner and resets the
\* session state. It returns "Browser closed" either way.
CloseBrowser ==
    /\ nCalls < callBudget
    /\ \E rejects \in IF runner /\ isRecordingVideo /\ handles.page /\ recordVideo
                       THEN BOOLEAN ELSE {FALSE} :
          LET saved == saveVideo(handles.page, recordVideo, rejects) = None
              r == closeBrowserTool(runner, isRecordingVideo, saved)
              c == close(handles, screencastActive, cdpSession)
          IN  /\ IF r.closes
                 THEN /\ handles' = c.handles
                      /\ cdpSession' = c.cdpSession
                      /\ screencastActive' = c.screencastActive
                      /\ open' = OpenAfterClose(TRUE)
                      /\ runner' = FALSE
                      /\ currentSteps' = <<>>
                      /\ isRecordingVideo' = FALSE
                      /\ isHeadless' = TRUE
                 ELSE UNCHANGED <<handles, cdpSession, screencastActive, open, runner,
                                  currentSteps, isRecordingVideo, isHeadless>>
              /\ lastCall' = CallOf("close-browser",
                                    Returned(FALSE, IF r.videoPath # None
                                                    THEN "Browser closed. Video saved"
                                                    ELSE "Browser closed"))
              /\ lastResult' = Some([tool |-> "close-browser", closed |-> TRUE,
                                     videoPath |-> r.videoPath])
    /\ closedSince' = TRUE
    /\ closedARunner' = runner
    /\ nCalls' = nCalls + 1
    /\ UNCHANGED <<shots, nSessions, recordVideo, runnerHeadless, castModes, peakOpen>>
    /\ UNCHANGED runRest
    /\ UNCHANGED <<lastVideo, callBudget, stale, uiVars, asyncVars>>
    /\ screencastFrameCallback' = IF runner THEN FALSE ELSE screencastFrameCallback
    /\ UNCHANGED latestFrame
    /\ unread' = FALSE
    /\ UNCHANGED castRest


\* The tool results that tell the caller there is no session.
NoSessionTexts == {"No active session", "No active browser session"}

\* A plausible slip: take-screenshot without its test of `runner`, the call on
\* null then throwing.
takeScreenshotToolUnguarded(hasRunner, page, fails) ==
    IF ~hasRunner THEN Thrown("Cannot read properties of null")
    ELSE IF ~page THEN Thrown("No active page")
    ELSE IF fails THEN Thrown(ErrScreenshot)
    ELSE Returned(FALSE, "Screenshot captured")

\* The result of take-screenshot: runner.takeScreenshot() is not in a try.
takeScreenshotTool(hasRunner, page, fails) ==
    IF ~hasRunner THEN Returned(TRUE, "No active session")
    ELSE IF ~page THEN Thrown("No active page")
    ELSE IF fails THEN Thrown(ErrScreenshot)
    ELSE Returned(FALSE, "Screenshot captured")

\* The result of save-video: what runner.saveVideo throws is caught.
saveVideoTool(hasRunner, page, video, fails) ==
    IF ~hasRunner THEN Returned(TRUE, "No active browser session")
    ELSE IF ~page THEN Returned(TRUE, "Failed to save video: No active page")
    ELSE IF ~video THEN Returned(TRUE, "Failed to save video: No video recording")
    ELSE IF fails THEN Returned(TRUE, "Failed to save video")
    ELSE Returned(FALSE, "Video saved")

\* The result of start-screencast, st being the outcome of
\* runner.startScreencast when the handler gets to call it.
startScreencastTool(hasRunner, headless, active, st) ==
    IF ~hasRunner THEN Returned(TRUE, "No active browser session")
    ELSE IF headless THEN Returned(TRUE, "Screencast requires headless: false")
    ELSE IF active THEN Returned(FALSE, "Screencast already active")
    ELSE IF st.threw # None THEN Returned(TRUE, "Failed to start screencast")
    ELSE Returned(FALSE, "Screencast started")

\* Whether the start-screencast handler gets to call runner.startScreencast.
startScreencastToolCalls(hasRunner, headless, active) ==
    hasRunner /\ ~headless /\ ~active

\* The result of replay-step (the handler of src/main.tsx), r being the
\* outcome of runner.replayStep when the handler gets to call it.
replayStepTool(hasRunner, stepIndex, len, r) ==
    IF ~hasRunner THEN Returned(TRUE, "No active session")
    ELSE IF stepIndex < 0 \/ stepIndex >= len THEN Returned(TRUE, "Invalid step index")
    ELSE IF r.threw # None THEN Thrown(r.threw[1])
    ELSE Returned(FALSE, "Replayed step")

\* Tool take-screenshot.
TakeScreenshot ==
    /\ nCalls < callBudget
    /\ \E fails \in BOOLEAN :
          lastCall' = CallOf("take-screenshot",
                             takeScreenshotTool(runner, handles.page, fails))
    /\ nCalls' = nCalls + 1
    /\ UNCHANGED <<handles, shots, cdpSession, screencastActive, nSessions, runner,
                   currentSteps, isHeadless, isRecordingVideo, open, recordVideo, runnerHeadless, castModes,
                   closedSince, closedARunner,
                   peakOpen>>
    /\ lastResult' = None
    /\ UNCHANGED runRest
    /\ UNCHANGED <<lastVideo, callBudget, stale, uiVars, asyncVars>>
    /\ UNCHANGED <<screencastFrameCallback, latestFrame, unread>>
    /\ UNCHANGED castRest

\* Tool save-video.
SaveVideo ==
    /\ nCalls < callBudget
    /\ \E fails \in BOOLEAN :
          lastCall' = CallOf("save-video",
                             saveVideoTool(runner, handles.page, recordVideo, fails))
    /\ nCalls' = nCalls + 1
    /\ UNCHANGED <<handles, shots, cdpSession, screencastActive, nSessions, runner,
                   currentSteps, isHeadless, isRecordingVideo, open, recordVideo, runnerHeadless, castModes,
                   closedSince, closedARunner,
                   peakOpen>>
    /\ lastResult' = None
    /\ UNCHANGED runRest
    /\ UNCHANGED <<lastVideo, callBudget, stale, uiVars, asyncVars>>
    /\ UNCHANGED <<screencastFrameCallback, latestFrame, unread>>
    /\ UNCHANGED castRest

\* Tool start-screencast.
StartScreencast ==
    /\ nCalls < callBudget
    /\ \E outcome \in StartOutcomes :
          LET st == startScreencast(handles.page, screencastActive, cdpSession,
                                    nSessions + 1, outcome)
              called == startScreencastToolCalls(runner, isHeadless, screencastActive)
          IN  /\ lastCall' = CallOf("start-screencast",
                                    startScreencastTool(runner, isHeadless,
                                                        screencastActive, st))
              /\ cdpSession' = IF called THEN st.cdpSession ELSE cdpSession
              /\ screencastActive' = IF called THEN st.screencastActive
                                     ELSE screencastActive
              /\ nSessions' = IF called /\ st.cdpSession # cdpSession
                              THEN nSessions + 1 ELSE nSessions
              /\ castModes' = IF called /\ st.threw = None
                              THEN castModes \cup {runnerHeadless} ELSE castModes
              /\ unread' = IF called /\ st.threw = None THEN FALSE ELSE unread
    /\ nCalls' = nCalls + 1
    /\ UNCHANGED <<handles, shots, runner, currentSteps, isHeadless, isRecordingVideo,
                   open, recordVideo, runnerHeadless, closedSince, closedARunner,
                   peakOpen>>
    /\ lastResult' = None
    /\ UNCHANGED runRest
    /\ UNCHANGED <<lastVideo, callBudget, stale, uiVars, asyncVars>>
    /\ UNCHANGED <<screencastFrameCallback, latestFrame>>
    /\ UNCHANGED castRest

\* Tool stop-screencast: without a runner it returns a result that is no error.
StopScreencast ==
    /\ nCalls < callBudget
    /\ IF runner
       THEN LET sp == stopScreencast(screencastActive, cdpSession)
            IN  /\ cdpSession' = sp.cdpSession
                /\ screencastActive' = sp.screencastActive
                /\ lastCall' = CallOf("stop-screencast",
                                      Returned(FALSE, "Screencast stopped"))
       ELSE /\ UNCHANGED <<cdpSession, screencastActive>>
            /\ lastCall' = CallOf("stop-screencast", Returned(FALSE, "No active session"))
    /\ nCalls' = nCalls + 1
    /\ UNCHANGED <<handles, shots, nSessions, runner, currentSteps, isHeadless,
                   isRecordingVideo, open, recordVideo, runnerHeadless, castModes, closedSince, closedARunner,
                   peakOpen>>
    /\ lastResult' = None
    /\ UNCHANGED runRest
    /\ UNCHANGED <<lastVideo, callBudget, stale, uiVars, asyncVars>>
    /\ screencastFrameCallback' = IF runner THEN FALSE ELSE screencastFrameCallback
    /\ UNCHANGED latestFrame
    /\ unread' = IF runner THEN FALSE ELSE unread
    /\ UNCHANGED castRest

\* Tool replay-step: replays currentSteps[stepIndex] and stores the result in
\* its place.
ReplayStep ==
    /\ nCalls < callBudget
    /\ \E stepIndex \in StepIndexes, env \in ToolEnvs :
          LET valid == runner /\ stepIndex < Len(currentSteps)
              r == IF valid
                   THEN replayStep(currentSteps[stepIndex + 1], handles.page, env,
                                   shots + 1)
                   ELSE [threw |-> None, result |-> None]
          IN  /\ lastCall' = CallOf("replay-step",
                                    replayStepTool(runner, stepIndex, Len(currentSteps), r))
              /\ currentSteps' = IF valid /\ r.threw = None
                                 THEN [currentSteps EXCEPT ![stepIndex + 1] = r.result[1]]
                                 ELSE currentSteps
              /\ shots' = IF valid /\ r.threw = None THEN shots + 1 ELSE shots
    /\ nCalls' = nCalls + 1
    /\ UNCHANGED <<handles, cdpSession, screencastActive, nSessions, runner, isHeadless,
                   isRecordingVideo, open, recordVideo, runnerHeadless, castModes, closedSince, closedARunner,
                   peakOpen>>
    /\ lastResult' = None
    /\ UNCHANGED runRest
    /\ UNCHANGED <<lastVideo, callBudget, stale, uiVars, asyncVars>>
    /\ UNCHANGED <<screencastFrameCallback, latestFrame, unread>>
    /\ UNCHANGED castRest

\* The server as it starts: no runner, no steps, no tool call made.
InitTools ==
    /\ actions = <<>>
    /\ opts = DefaultOptions
    /\ twinOn = FALSE
    /\ actions2 = <<>>
    /\ InitRunner

NextServer ==
    \/ PlaywrightRun \/ RunWithPreview \/ CloseBrowser
    \/ TakeScreenshot \/ SaveVideo \/ StartScreencast \/ StopScreencast \/ ReplayStep

SpecServer == InitTools /\ [][NextServer]_vars


----------------------------------------------------------------------------
\* Properties of the tool handlers

\* C5: over tool calls made one after the other, at most one browser is open
\* at any time, and it is the one the runner in place holds: playwright-run
\* and run-with-preview close the browser of the runner in place before they
\* launch a new one, and close-browser leaves none open.
C5_AtMostOneBrowserOpen ==
    /\ open <= 1
    /\ peakOpen <= 1
    /\ open = (IF runner /\ handles.browser THEN 1 ELSE 0)
    /\ (lastCall # None /\ lastCall[1].tool = "close-browser") => open = 0

\* C5, its case: a run tool was called with a runner in place whose browser
\* was open, it returned, and one browser is open after it.
C5_Witness ==
    /\ lastCall # None
    /\ lastCall[1].tool \in {"playwright-run", "run-with-preview"}
    /\ lastCall[1].hadRunner
    /\ lastCall[1].openBefore = 1
    /\ ~lastCall[1].threw
    /\ open = 1

\* The tools that need a browser session.
SessionTools == {"take-screenshot", "save-video", "start-screencast", "replay-step"}

\* C6: after close-browser has completed and until a run tool is called, no
\* runner is in place, and take-screenshot, save-video, start-screencast and
\* replay-step return a failure result (isError) that says there is no active
\* session; none of them throws.
C6_NoSessionAfterClose ==
    /\ closedSince => (~runner /\ currentSteps = <<>>)
    /\ (lastCall # None /\ lastCall[1].afterClose /\ lastCall[1].tool \in SessionTools)
          => /\ lastCall[1].isError
             /\ ~lastCall[1].threw
             /\ lastCall[1].text \in NoSessionTexts
             /\ closedSince

\* C6, its case: a session was run, close-browser closed it, and take-screenshot
\* was called next.
C6_Witness ==
    /\ lastCall # None
    /\ lastCall[1].tool = "take-screenshot"
    /\ lastCall[1].afterClose
    /\ closedARunner
    /\ lastCall[1].isError
    /\ lastCall[1].text = "No active session"


\* C11 as stated: no screencast is ever started, and none is active, on a
\* browser that runs headless, whether start-screencast or run-with-preview
\* starts it.
C11_NoScreencastOnHeadless ==
    /\ TRUE \notin castModes
    /\ (runner /\ screencastActive) => ~runnerHeadless


\* C12 as stated: in run(), a passed step carries a screenshot exactly when
\* captureScreenshots is enabled, and a failed step carries one only when
\* captureScreenshots or screenshotOnFailure is enabled.
C12_ScreenshotIffEnabled ==
    \A k \in 1..Len(steps) :
        /\ steps[k].status = "passed"
              => ((steps[k].screenshot # None) <=> opts.captureScreenshots)
        /\ (steps[k].status = "failed" /\ steps[k].screenshot # None)
              => (opts.captureScreenshots \/ opts.screenshotOnFailure)


\* C13 as stated: an explicit screenshot action executed on a live page yields
\* a passed step that carries a screenshot, whatever captureScreenshots and
\* screenshotOnFailure are.
C13_ScreenshotActionCarriesScreenshot ==
    \A k \in 2..Len(steps) :
        (actions[k - 1].type = "screenshot" /\ handles.page)
            => (steps[k].status = "passed" /\ steps[k].screenshot # None)


\* C14 as stated: a step whose action itself raised no error is passed, and a
\* step is skipped only after a step whose action itself raised: a failed
\* screenshot capture neither fails the step nor makes later actions skipped.
C14_ScreenshotFailureIsHarmless ==
    /\ \A t \in 1..Len(trace) :
          trace[t].thrown = None => steps[trace[t].pos + 2].status = "passed"
    /\ \A k \in 1..Len(steps) :
          steps[k].status = "skipped"
              => \E t \in 1..Len(trace) :
                    trace[t].pos + 2 < k /\ trace[t].thrown # None


\* ---------------------------------------------------------------------------
\* Runs over actions that lack a field, and over wait actions
\* ---------------------------------------------------------------------------

HoverNoSel     == Action("hover", None, None)
FillNoSel      == Action("fill", None, Some(<<"a">>))
FillNoValue    == Action("fill", Some(SelUser), None)
FillNothing    == Action("fill", None, None)
FillEmptyValue == Action("fill", Some(SelUser), Some(<<>>))
SelectNoSel    == Action("select", None, Some(<<"a">>))
SelectNoValue  == Action("select", Some(SelUser), None)
NavigateNoUrl  == Action("navigate", None, None)
NavigateUrl    == Action("navigate", None, Some(Url))

\* Actions with and without their required fields.
FieldActions ==
    {ClickUser, ClickNoSel, HoverNoSel, FillNoSel, FillNoValue, FillNothing,
     FillEmptyValue, SelectNoSel, SelectNoValue, NavigateNoUrl, NavigateUrl}

\* Values given to a wait action: "250", "0", "7", "7a", "a", "-5", " 7", "".
WaitValues ==
    {<<"2", "5", "0">>, <<"0">>, <<"7">>, <<"7", "a">>, <<"a">>, <<"-", "5">>,
     <<" ", "7">>, <<>>}

\* Wait actions: by value, by nothing, by timeout alone, by selector.
WaitActions ==
    {WaitAction(None, Some(v), None) : v \in WaitValues}
        \cup {WaitAction(None, None, None),
              WaitAction(None, None, Some(2000)),
              WaitAction(Some(SelUser), None, None),
              WaitAction(Some(SelUser), Some(<<"2", "5", "0">>), Some(2000))}

\* The action lists of these runs: one sample action, alone or next to a click.
PerformLists ==
    UNION {{<<a>>, <<ClickUser, a>>, <<a, ClickUser>>} : a \in FieldActions \cup WaitActions}

InitPerform ==
    /\ actions \in PerformLists
    /\ opts \in RunOptions
    /\ twinOn = FALSE
    /\ actions2 = <<>>
    /\ InitRunner

SpecPerform == InitPerform /\ [][NextRun]_vars

\* The required fields an action lacks, as the action table gives them.
MissingFields(action) ==
    {f \in {"selector"} :
        action.type \in {"click", "hover", "fill", "select"} /\ action.selector = None}
    \cup {f \in {"value"} :
            action.type \in {"fill", "select", "navigate"} /\ action.value = None}

\* The message that names a missing field of an action.
MissingFieldMessage(action, f) ==
    IF action.type = "navigate" THEN "URL required for navigate"
    ELSE IF f = "selector" THEN SelectorRequired[action.type]
    ELSE ValueRequired[action.type]

\* C16: an executed action that lacks a required field (click, hover without
\* selector; fill, select without selector or value; navigate without value)
\* calls no browser primitive, and its step is failed with the message of a
\* field it lacks.
C16_MissingFieldRejectedBeforeBrowser ==
    \A t \in 1..Len(trace) :
        (trace[t].pos >= 0 /\ MissingFields(actions[trace[t].pos + 1]) # {})
            => LET action == actions[trace[t].pos + 1]
                   step == steps[trace[t].pos + 2]
               IN  /\ trace[t].called = None
                   /\ step.status = "failed"
                   /\ step.error \in {Some(MissingFieldMessage(action, f)) :
                                        f \in MissingFields(action)}

\* A fill without value was executed on a page and its step is failed with
\* "Value required for fill", with no browser primitive called.
C16_Witness ==
    \E t \in 1..Len(trace) :
        /\ trace[t].pos >= 0
        /\ actions[trace[t].pos + 1] = FillNoValue
        /\ handles.page
        /\ trace[t].called = None
        /\ steps[trace[t].pos + 2].status = "failed"
        /\ steps[trace[t].pos + 2].error = Some("Value required for fill")


\* The wait actions without selector that run() executed, with the browser
\* primitive each called.
WaitsWithoutSelector ==
    {t \in 1..Len(trace) :
        /\ trace[t].pos >= 0
        /\ actions[trace[t].pos + 1].type = "wait"
        /\ actions[trace[t].pos + 1].selector = None}

\* C18 as stated: a wait action without selector waits the integer parsed
\* from value when value parses as one ("250" gives 250, "0" gives 0) and
\* 1000 ms when value is absent or does not parse; with a selector it waits
\* for the element and ignores value.
C18_WaitDelayIsParsedValue ==
    \A t \in 1..Len(trace) :
        LET action == IF trace[t].pos >= 0 THEN actions[trace[t].pos + 1]
                      ELSE NavigateUrl
            parsed == IF action.value = None THEN None ELSE parseInt(action.value[1])
        IN  (trace[t].pos >= 0 /\ action.type = "wait")
                => IF action.selector = None
                   THEN /\ trace[t].called # None
                        /\ trace[t].called[1].op = "waitForTimeout"
                        /\ trace[t].called[1].ms =
                              (IF parsed = None THEN Some(1000) ELSE parsed)
                   ELSE /\ trace[t].called # None
                        /\ trace[t].called[1].op = "waitForSelector"

\* C19 as stated: a wait action given only a timeout, no selector and no
\* value, waits for the duration of that timeout.
C19_WaitByTimeoutAlone ==
    \A t \in WaitsWithoutSelector :
        LET action == actions[trace[t].pos + 1]
        IN  (action.value = None /\ action.timeout # None)
                => /\ trace[t].called # None
                   /\ trace[t].called[1].op = "waitForTimeout"
                   /\ trace[t].called[1].ms = action.timeout


\* C15: when the steps that playwright-run returns hold no failed step, the
\* summary has passed = total = number of actions + 1 and failed = 0, and no
\* step is skipped.
C15_SummaryOfACleanRun ==
    (lastResult # None /\ lastResult[1].tool = "playwright-run"
        /\ \A k \in 1..Len(lastResult[1].steps) : lastResult[1].steps[k].status # "failed")
    => /\ lastResult[1].summary.passed = lastResult[1].summary.total
       /\ lastResult[1].summary.total = Len(lastResult[1].actions) + 1
       /\ lastResult[1].summary.failed = 0
       /\ \A k \in 1..Len(lastResult[1].steps) :
             lastResult[1].steps[k].status # "skipped"

\* playwright-run returned the steps of a navigation and one action, none
\* failed, with a summary of 2 passed out of 2.
C15_Witness ==
    /\ lastResult # None
    /\ lastResult[1].tool = "playwright-run"
    /\ Len(lastResult[1].actions) = 1
    /\ \A k \in 1..Len(lastResult[1].steps) : lastResult[1].steps[k].status # "failed"
    /\ lastResult[1].summary.total = 2
    /\ lastResult[1].summary.passed = 2

\* C17 as stated: when an action of playwright-run lacks a required field, the
\* tool result is flagged isError.
C17_MissingFieldIsAFailedToolResult ==
    (lastResult # None /\ lastResult[1].tool = "playwright-run")
    => \A k \in 2..Len(lastResult[1].steps) :
          (/\ MissingFields(lastResult[1].actions[k - 1]) # {}
           /\ lastResult[1].steps[k].status = "failed")
              => lastResult[1].isError

\* C20 as stated: in run-with-preview, after a failed step every remaining
\* action that is no screenshot is reported skipped.
C20_PreviewSkipsAfterFailure ==
    (lastResult # None /\ lastResult[1].tool = "run-with-preview")
    => \A j, k \in 1..Len(lastResult[1].steps) :
          (/\ j < k
           /\ lastResult[1].steps[j].status = "failed"
           /\ lastResult[1].steps[k].type # "screenshot")
              => lastResult[1].steps[k].status = "skipped"


\* C21 as stated: in the steps that run-with-preview returns, each index is
\* the step's position counted on from the navigation step, so no two steps
\* share an index.
C21_PreviewIndicesArePositions ==
    (lastResult # None /\ lastResult[1].tool = "run-with-preview")
    => /\ \A k \in 1..Len(lastResult[1].steps) :
             lastResult[1].steps[k].index = lastResult[1].steps[1].index + (k - 1)
       /\ \A j, k \in 1..Len(lastResult[1].steps) :
             j # k => lastResult[1].steps[j].index # lastResult[1].steps[k].index


\* C22 as stated: in the steps a run tool returns, run-with-preview included,
\* the value of every fill whose selector matches the password heuristic is a
\* string of bullets of length min(len(value), 12).
C22_NoToolResultRevealsAPassword ==
    (lastResult # None /\ lastResult[1].tool \in {"playwright-run", "run-with-preview"})
    => \A k \in 2..Len(lastResult[1].steps) :
          LET action == lastResult[1].actions[k - 1]
          IN  (/\ action.type = "fill"
               /\ action.value # None
               /\ PasswordHeuristic(action.selector))
                  => lastResult[1].steps[k].value
                        = Some(Repeat(Bullet, Min(Len(action.value[1]), MaskCap)))


\* ---------------------------------------------------------------------------
\* The recorded video of a runner
\* ---------------------------------------------------------------------------

\* getVideoPath(): null without a page, null without a recording, null when
\* video.path() rejects, otherwise the path of the file.
getVideoPath(page, video, pathRejects) ==
    IF ~page THEN None
    ELSE IF ~video THEN None
    ELSE IF pathRejects THEN None
    ELSE Some("video.webm")

\* close() has returned and one of its steps closed the page of a run.
ClosedAfterRun ==
    /\ lastClose # None
    /\ \E k \in 1..Len(lastClose[1].teardown) : lastClose[1].teardown[k].step = "page"

\* The server variables that a call on the runner itself leaves alone.
sessionRest == <<runner, currentSteps, isHeadless, isRecordingVideo, open, recordVideo,
                 runnerHeadless, castModes, lastCall, closedSince, closedARunner,
                 peakOpen, nCalls, lastResult, screencastFrameCallback, latestFrame,
                 unread, callBudget, stale>>

\* getVideoPath() is called, while no other call on the runner is in progress.
GetVideoPath ==
    /\ CallerFree
    /\ \E pathRejects \in BOOLEAN :
          lastVideo' = Some([recorded |-> recordVideo,
                             closed   |-> ClosedAfterRun,
                             path     |-> getVideoPath(handles.page, recordVideo,
                                                       pathRejects)])
    /\ UNCHANGED <<runVars, castVars, sessionRest, uiVars, asyncVars>>

\* A runner made with or without recordVideo, on which run(url, []) is called.
InitVideo ==
    /\ actions = <<>>
    /\ opts = DefaultOptions
    /\ twinOn = FALSE
    /\ actions2 = <<>>
    /\ InitSession
    /\ recordVideo \in BOOLEAN
    /\ callBudget = MaxCalls
    /\ InitFields
    /\ InitApp(UiBuilt)

NextVideo ==
    \/ RunLaunch \/ RunNavigate \/ RunReturn
    \/ CastCloseCall \/ CastClosePage \/ CastCloseContext \/ CastCloseBrowser
    \/ GetVideoPath

SpecVideo == InitVideo /\ [][NextVideo]_vars

\* C23 as stated: when recording was enabled for a run, getVideoPath called
\* after close() returns the path of the recorded file, not null.
C23_VideoPathAfterClose ==
    (lastVideo # None /\ lastVideo[1].recorded /\ lastVideo[1].closed)
        => lastVideo[1].path # None


\* The session state that close-browser resets, with the runner's own state.
SessionState ==
    <<runner, handles, cdpSession, screencastActive, open, currentSteps,
      isRecordingVideo, isHeadless>>

\* C24: close-browser always ends with no runner, the runner's browser closed,
\* no steps, the recording flag false and the headless flag true, and returns
\* closed: true without error, also when saving the video fails; called with
\* no session it changes nothing of the session, so a second call in a row
\* leaves what the first one left.
C24_CloseBrowserResets ==
    /\ []((lastCall # None /\ lastCall[1].tool = "close-browser")
            => /\ ~runner
               /\ handles = NullHandles
               /\ currentSteps = <<>>
               /\ ~isRecordingVideo
               /\ isHeadless
               /\ ~lastCall[1].isError
               /\ ~lastCall[1].threw
               /\ lastResult # None
               /\ lastResult[1].closed)
    /\ [][(nCalls' # nCalls /\ lastCall'[1].tool = "close-browser" /\ ~runner)
            => (SessionState' = SessionState /\ lastResult'[1].closed)]_vars

\* close-browser was called on a session that records a video, the save
\* failed, and the session is reset all the same.
C24_Witness ==
    /\ lastCall # None
    /\ lastCall[1].tool = "close-browser"
    /\ lastCall[1].hadRunner
    /\ recordVideo
    /\ lastResult[1].videoPath = None
    /\ ~runner


\* ---------------------------------------------------------------------------
\* The timeline app
\* ---------------------------------------------------------------------------

\* Action lists of the tool calls whose results the app shows.
UiActionLists ==
    {<<>>, <<ClickUser>>, <<ClickUser, Screenshot>>, <<ClickUser, ClickUser>>}

\* structuredContent.steps of the results of playwright-run and of
\* run-with-preview, as the server's handlers produce them.
UiResults ==
    UNION {UNION {{run(acts, DefaultOptions, envs, 1),
                   previewFrom(run(<<>>, DefaultOptions, envs, 1), acts, 1, envs, 1)} :
                      envs \in [1..(Len(acts) + 1) -> ToolEnvs]} :
              acts \in UiActionLists}

\* The array indices of the steps shown.
StepIdxs(sts) == 0..(Len(sts) - 1)

\* ontoolresult: the set given to setExpandedSteps. The built copy collects
\* step.index of the failed steps, the other copy their array indices.
failedSteps(copy, sts) ==
    IF copy = UiBuilt
    THEN {sts[k].index : k \in {n \in 1..Len(sts) : sts[n].status = "failed"}}
    ELSE {k - 1 : k \in {n \in 1..Len(sts) : sts[n].status = "failed"}}

\* The render: isExpanded of the card of the step at array index idx. The
\* built copy looks step.index up in expandedSteps, the other copy idx.
isExpanded(copy, expanded, sts, idx) ==
    IF copy = UiBuilt THEN sts[idx + 1].index \in expanded ELSE idx \in expanded

\* The array indices of the steps that have a card: the other copy hides the
\* steps of type screenshot from the list.
Cards(copy, sts) ==
    IF copy = UiBuilt THEN StepIdxs(sts)
    ELSE {idx \in StepIdxs(sts) : sts[idx + 1].type # "screenshot"}

\* selectStep(index): the new expandedSteps. The built copy sets {index}; the
\* other copy toggles.
selectStep(copy, expanded, index) ==
    IF copy = UiBuilt THEN {index}
    ELSE IF index \in expanded THEN {} ELSE {index}

\* stepsWithScreenshots: the array indices of the steps with a screenshot, in
\* order.
RECURSIVE stepsWithScreenshotsFrom(_, _)
stepsWithScreenshotsFrom(sts, idx) ==
    IF idx >= Len(sts) THEN <<>>
    ELSE (IF sts[idx + 1].screenshot # None THEN <<idx>> ELSE <<>>)
            \o stepsWithScreenshotsFrom(sts, idx + 1)

stepsWithScreenshots(sts) == stepsWithScreenshotsFrom(sts, 0)

\* Array.findIndex over stepsWithScreenshots: the 0-based position of the
\* entry whose arrayIndex is idx, -1 when there is none.
findIndex(shotIdxs, idx) ==
    IF \E n \in 1..Len(shotIdxs) : shotIdxs[n] = idx
    THEN (CHOOSE n \in 1..Len(shotIdxs) : shotIdxs[n] = idx) - 1
    ELSE -1

\* The updater of the interval: the next active step and whether auto-play
\* goes on.
autoPlayTick(sts, prev) ==
    LET shotIdxs == stepsWithScreenshots(sts)
        nextIdx == findIndex(shotIdxs, prev) + 1
    IN  IF nextIdx >= Len(shotIdxs)
        THEN [active |-> prev, playing |-> FALSE]
        ELSE [active |-> shotIdxs[nextIdx + 1], playing |-> TRUE]

\* toggleAutoPlay: when starting at the last step with a screenshot, the
\* active step goes back to the first one.
toggleAutoPlayActive(sts, active, playing) ==
    LET shotIdxs == stepsWithScreenshots(sts)
    IN  IF ~playing /\ findIndex(shotIdxs, active) >= Len(shotIdxs) - 1
        THEN (IF shotIdxs # <<>> THEN shotIdxs[1] ELSE 0)
        ELSE active

\* A plausible slip: the scroll effect without its test of isAutoPlaying.
observerEffectNoPlayTest(sync, playing, hasData) == sync /\ hasData

\* The scroll effect: it installs an observer unless scroll sync is off,
\* auto-play is on or there is no data.
observerEffect(sync, playing, hasData) == sync /\ ~playing /\ hasData

\* The auto-play effect: it installs the interval when auto-play is on and
\* there is data.
intervalEffect(playing, hasData) == playing /\ hasData

\* The effects that follow a render.
Effects ==
    /\ observer' = observerEffect(scrollSyncEnabled', isAutoPlaying', data' # None)
    /\ interval' = intervalEffect(isAutoPlaying', data' # None)

UiEvent(name, index) ==
    Some([event |-> name, index |-> index, before |-> activeStepIndex,
          wasExpanded |-> IF data # None /\ index \in StepIdxs(data[1])
                          THEN isExpanded(uiCopy, expandedSteps, data[1], index)
                          ELSE FALSE,
          playing |-> isAutoPlaying])

\* ontoolresult with a result that is no error and has steps.
UiToolResult ==
    /\ \E sts \in UiResults :
          /\ data' = Some(sts)
          /\ expandedSteps' = failedSteps(uiCopy, sts)
    /\ activeStepIndex' = 0
    /\ ticks' = 0
    /\ lastUi' = UiEvent("result", 0)
    /\ UNCHANGED <<uiCopy, isAutoPlaying, scrollSyncEnabled, syncTimerPending>>
    /\ UNCHANGED <<error, lastReplay>>
    /\ Effects
    /\ UNCHANGED <<runVars, castVars, serverVars, asyncVars>>

\* ontoolinputpartial: the placeholder steps made from the actions that have
\* streamed in so far, numbered from 0.
placeholderSteps(partialActions) ==
    [k \in 1..Len(partialActions) |->
        [index |-> k - 1, type |-> partialActions[k].type,
         selector |-> partialActions[k].selector, value |-> None,
         status |-> "skipped", duration |-> 0, error |-> None, screenshot |-> None]]

\* Sample action lists of a partial tool input that has actions.
PartialLists == UiActionLists \ {<<>>}

\* Sample texts of a tool result that is an error.
ErrorTexts == {"No active session"}

\* ontoolinputpartial with actions: it sets data, and nothing else.
UiToolInputPartial ==
    /\ \E acts \in PartialLists : data' = Some(placeholderSteps(acts))
    /\ ticks' = 0
    /\ lastUi' = UiEvent("partial", 0)
    /\ UNCHANGED <<uiCopy, expandedSteps, activeStepIndex, isAutoPlaying,
                   scrollSyncEnabled, syncTimerPending, error, lastReplay>>
    /\ Effects
    /\ UNCHANGED <<runVars, castVars, serverVars, asyncVars>>

\* ontoolinput: setError(null).
UiToolInput ==
    /\ error' = None
    /\ ticks' = 0
    /\ lastUi' = UiEvent("input", 0)
    /\ UNCHANGED <<uiCopy, data, expandedSteps, activeStepIndex, isAutoPlaying,
                   scrollSyncEnabled, syncTimerPending, lastReplay>>
    /\ Effects
    /\ UNCHANGED <<runVars, castVars, serverVars, asyncVars>>

\* ontoolresult with a result flagged isError: setError(text), and return.
UiToolError ==
    /\ \E text \in ErrorTexts : error' = Some(text)
    /\ ticks' = 0
    /\ lastUi' = UiEvent("error", 0)
    /\ UNCHANGED <<uiCopy, data, expandedSteps, activeStepIndex, isAutoPlaying,
                   scrollSyncEnabled, syncTimerPending, lastReplay>>
    /\ Effects
    /\ UNCHANGED <<runVars, castVars, serverVars, asyncVars>>

\* The render: the error text on screen, None when none is. The error is
\* rendered in the branch taken while data is null, and nowhere else.
shownError(d, err) == IF d = None THEN err ELSE None

\* selectStep as every caller reaches it: the built copy switches scroll sync
\* off and sets a timeout that switches it on again.
UiSelectStep(idx, stopsAutoPlay) ==
    /\ activeStepIndex' = idx
    /\ expandedSteps' = selectStep(uiCopy, expandedSteps, idx)
    /\ isAutoPlaying' = IF stopsAutoPlay THEN FALSE ELSE isAutoPlaying
    /\ scrollSyncEnabled' = IF uiCopy = UiBuilt THEN FALSE ELSE scrollSyncEnabled
    /\ syncTimerPending' = IF uiCopy = UiBuilt THEN TRUE ELSE syncTimerPending
    /\ ticks' = 0
    /\ lastUi' = UiEvent("select", idx)
    /\ UNCHANGED <<uiCopy, data>>
    /\ UNCHANGED <<error, lastReplay>>
    /\ Effects
    /\ UNCHANGED <<runVars, castVars, serverVars, asyncVars>>

\* A click on a step card: auto-play is stopped and the step selected.
UiSelectCard ==
    /\ data # None
    /\ \E idx \in Cards(uiCopy, data[1]) : UiSelectStep(idx, TRUE)

\* A thumbnail or an arrow of the carousel: the step is selected.
UiCarouselSelect ==
    /\ data # None
    /\ \E idx \in StepIdxs(data[1]) : UiSelectStep(idx, FALSE)

\* The timeout of selectStep fires; others may still be pending.
UiSyncTimeout ==
    /\ syncTimerPending
    /\ scrollSyncEnabled' = TRUE
    /\ syncTimerPending' \in BOOLEAN
    /\ lastUi' = UiEvent("timeout", 0)
    /\ UNCHANGED <<uiCopy, data, expandedSteps, activeStepIndex, isAutoPlaying, ticks>>
    /\ UNCHANGED <<error, lastReplay>>
    /\ Effects
    /\ UNCHANGED <<runVars, castVars, serverVars, asyncVars>>

\* The play button of the carousel.
UiToggleAutoPlay ==
    /\ data # None
    /\ activeStepIndex' = toggleAutoPlayActive(data[1], activeStepIndex, isAutoPlaying)
    /\ isAutoPlaying' = ~isAutoPlaying
    /\ scrollSyncEnabled' = IF uiCopy = UiBuilt THEN TRUE ELSE scrollSyncEnabled
    /\ ticks' = 0
    /\ lastUi' = UiEvent("toggle", 0)
    /\ UNCHANGED <<uiCopy, data, expandedSteps, syncTimerPending>>
    /\ UNCHANGED <<error, lastReplay>>
    /\ Effects
    /\ UNCHANGED <<runVars, castVars, serverVars, asyncVars>>

\* The interval of the auto-play effect fires.
UiTick ==
    /\ interval
    /\ LET t == autoPlayTick(data[1], activeStepIndex)
       IN  /\ activeStepIndex' = t.active
           /\ isAutoPlaying' = t.playing
    /\ ticks' = ticks + 1
    /\ lastUi' = UiEvent("tick", 0)
    /\ UNCHANGED <<uiCopy, data, expandedSteps, scrollSyncEnabled, syncTimerPending>>
    /\ UNCHANGED <<error, lastReplay>>
    /\ Effects
    /\ UNCHANGED <<runVars, castVars, serverVars, asyncVars>>

\* The observer reports a topmost visible card.
UiObserver ==
    /\ observer
    /\ \E idx \in Cards(uiCopy, data[1]) :
          /\ activeStepIndex' = idx
          /\ lastUi' = UiEvent("observer", idx)
    /\ ticks' = 0
    /\ UNCHANGED <<uiCopy, data, expandedSteps, isAutoPlaying, scrollSyncEnabled,
                   syncTimerPending>>
    /\ UNCHANGED <<error, lastReplay>>
    /\ Effects
    /\ UNCHANGED <<runVars, castVars, serverVars, asyncVars>>

\* Either copy of the component, mounted.
InitUi ==
    /\ actions = <<>>
    /\ opts = DefaultOptions
    /\ twinOn = FALSE
    /\ actions2 = <<>>
    /\ InitServer
    /\ InitFields
    /\ \E copy \in UiCopies : InitApp(copy)

NextUi ==
    \/ UiToolResult \/ UiSelectCard \/ UiCarouselSelect \/ UiSyncTimeout
    \/ UiToggleAutoPlay \/ UiTick \/ UiObserver
    \/ UiToolInputPartial \/ UiToolInput \/ UiToolError

SpecUi == InitUi /\ [][NextUi]_vars


\* The array indices of the steps whose card is rendered expanded.
ExpandedCards ==
    IF data = None THEN {}
    ELSE {idx \in StepIdxs(data[1]) : isExpanded(uiCopy, expandedSteps, data[1], idx)}

\* The event handled last, when it is of the given kind.
LastUiIs(name) == lastUi # None /\ lastUi[1].event = name

\* C25 as stated: when a tool result with steps has arrived, the expanded
\* cards are exactly the steps whose status is failed.
C25_ResultExpandsTheFailedSteps ==
    LastUiIs("result")
        => ExpandedCards = {idx \in StepIdxs(data[1]) : data[1][idx + 1].status = "failed"}

\* C26 as stated: selecting an expanded step collapses it, selecting a step
\* that is not expanded makes it the only expanded one, and in both cases the
\* selected step becomes the active step.
C26_SelectIsAnAccordionToggle ==
    LastUiIs("select")
        => /\ activeStepIndex = lastUi[1].index
           /\ IF lastUi[1].wasExpanded
              THEN lastUi[1].index \notin ExpandedCards
              ELSE ExpandedCards = {lastUi[1].index}

\* The steps with a screenshot that come after the step at array index idx.
ShotsAfter(idx) ==
    {n \in StepIdxs(data[1]) : n > idx /\ data[1][n + 1].screenshot # None}

\* C27 as stated: a tick of auto-play moves the active step to the next step
\* with a screenshot after the current one; the active step never moves
\* backward and never lands on a step without a screenshot.
C27_TickMovesToNextScreenshot ==
    LastUiIs("tick")
        => /\ activeStepIndex >= lastUi[1].before
           /\ activeStepIndex # lastUi[1].before
                 => /\ data[1][activeStepIndex + 1].screenshot # None
                    /\ activeStepIndex \in ShotsAfter(lastUi[1].before)
                    /\ \A n \in ShotsAfter(lastUi[1].before) : activeStepIndex <= n

\* C28 as stated: left alone, auto-play is off after at most as many ticks as
\* there are steps with a screenshot, it stops with the active step at the
\* last such step, and a tick never takes the active step back to the first.
C28_AutoPlayHalts ==
    data # None
        => LET shotIdxs == stepsWithScreenshots(data[1])
           IN  /\ isAutoPlaying => ticks < Len(shotIdxs)
               /\ (LastUiIs("tick") /\ ~isAutoPlaying /\ shotIdxs # <<>>)
                     => activeStepIndex = shotIdxs[Len(shotIdxs)]
               /\ LastUiIs("tick") => activeStepIndex >= lastUi[1].before

\* C29: the interval of auto-play and the scroll observer are never installed
\* together; while isAutoPlaying is true no observer is installed, and the
\* observer sets the active step only while auto-play is off.
C29_OneWriterOfTheActiveStep ==
    /\ ~(interval /\ observer)
    /\ isAutoPlaying => ~observer
    /\ LastUiIs("observer") => ~lastUi[1].playing

\* In the built copy auto-play runs over shown steps with scroll sync enabled,
\* the interval is installed and the observer is not.
C29_Witness ==
    /\ uiCopy = UiBuilt
    /\ data # None
    /\ isAutoPlaying
    /\ scrollSyncEnabled
    /\ interval
    /\ ~observer


----------------------------------------------------------------------------
\* Screencast frames kept for polling (server.ts lines 602-749)
\*
\* The module keeps one frame callback, set when the server is created to
\* store the frame in latestFrame. The callback start-screencast hands to the
\* runner forwards a frame to it when it is not null; stop-screencast and
\* close-browser set it to null.

\* Bound: the number of tool calls while frames are followed.
MaxFrameCalls == 5

\* The callback start-screencast passes to startScreencast, applied to a
\* frame: what latestFrame is afterwards.
forwardFrame(callback, latest) ==
    IF callback THEN Some("frame") ELSE latest

\* The get-screencast-frame handler: its result, and latestFrame afterwards.
getScreencastFrameTool(latest) ==
    [hasFrame    |-> latest # None,
     text        |-> IF latest # None THEN "Frame retrieved" ELSE "No frame available",
     latestFrame |-> None]

\* The browser produces a frame of the screencast that start-screencast
\* started, and the runner hands it to the callback it was given.
ScreencastFrame ==
    /\ runner /\ handles.page /\ screencastActive /\ cdpSession # 0
    /\ latestFrame' = forwardFrame(screencastFrameCallback, latestFrame)
    /\ unread' = TRUE
    /\ stale' = (~screencastFrameCallback /\ latestFrame # None)
    /\ UNCHANGED <<handles, shots, cdpSession, screencastActive, nSessions, runner,
                   currentSteps, isHeadless, isRecordingVideo, open, recordVideo,
                   runnerHeadless, castModes, lastCall, closedSince, closedARunner,
                   peakOpen, nCalls, lastResult, lastVideo, screencastFrameCallback,
                   callBudget>>
    /\ UNCHANGED <<runRest, castRest, uiVars, asyncVars>>

\* Tool get-screencast-frame: returns the frame kept, and clears it.
GetScreencastFrame ==
    /\ nCalls < callBudget
    /\ LET r == getScreencastFrameTool(latestFrame)
       IN  /\ lastCall' = CallOf("get-screencast-frame", Returned(FALSE, r.text))
           /\ lastResult' = Some([tool |-> "get-screencast-frame",
                                  hasFrame |-> r.hasFrame,
                                  produced |-> unread,
                                  stale |-> stale])
           /\ latestFrame' = r.latestFrame
           /\ stale' = FALSE
    /\ unread' = FALSE
    /\ nCalls' = nCalls + 1
    /\ UNCHANGED <<handles, shots, cdpSession, screencastActive, nSessions, runner,
                   currentSteps, isHeadless, isRecordingVideo, open, recordVideo,
                   runnerHeadless, castModes, closedSince, closedARunner, peakOpen,
                   lastVideo, screencastFrameCallback, callBudget>>
    /\ UNCHANGED <<runRest, castRest, uiVars, asyncVars>>

\* The server as it starts, followed for MaxFrameCalls tool calls.
InitFrames ==
    /\ actions = <<>>
    /\ opts = DefaultOptions
    /\ twinOn = FALSE
    /\ actions2 = <<>>
    /\ InitSession
    /\ recordVideo = FALSE
    /\ callBudget = MaxFrameCalls
    /\ InitFields
    /\ InitApp(UiBuilt)

NextFrames ==
    \/ PlaywrightRun \/ CloseBrowser \/ StartScreencast \/ StopScreencast
    \/ ScreencastFrame \/ GetScreencastFrame

SpecFrames == InitFrames /\ [][NextFrames]_vars

\* C30 as stated: once start-screencast has succeeded, a frame the browser
\* produces afterwards is retrievable: get-screencast-frame, called when the
\* screencast in progress has produced a frame not yet asked for, returns
\* hasFrame true; also when the start followed a stop-screencast or a
\* close-browser.
C30_FramesAfterStartAreRetrievable ==
    (lastResult # None /\ lastResult[1].tool = "get-screencast-frame"
        /\ lastResult[1].produced)
        => lastResult[1].hasFrame


----------------------------------------------------------------------------
\* close-browser followed await by await (server.ts lines 474-520)
\*
\* The handler awaits runner.saveVideo(savePath) before it awaits
\* runner.close(). saveVideo awaits video.saveAs(path), which settles once
\* the page has closed and the file is complete. Nothing in the handler
\* closes the page before runner.close().

\* Bound: the number of tool calls while close-browser is followed step by step.
MaxCloseCalls == 2

\* The handler starts: with a runner that records it goes on to save the
\* video, with another runner to close it, without a runner to its return.
CloseCall ==
    /\ closePc = "idle"
    /\ nCalls < callBudget
    /\ nCalls' = nCalls + 1
    /\ videoPath' = None
    /\ closePc' = IF runner /\ isRecordingVideo THEN "saveVideo"
                  ELSE IF runner THEN "close"
                  ELSE "return"
    /\ closedARunner' = runner
    /\ UNCHANGED <<handles, shots, cdpSession, screencastActive, nSessions, runner,
                   currentSteps, isHeadless, isRecordingVideo, open, recordVideo,
                   runnerHeadless, castModes, lastCall, closedSince, peakOpen,
                   lastResult, lastVideo, screencastFrameCallback, latestFrame, unread,
                   callBudget, stale, pageGone>>
    /\ UNCHANGED <<runRest, castRest, uiVars, overlapVars>>

\* runner.saveVideo(savePath) up to its await: what it throws is caught by
\* the handler, otherwise the handler waits for video.saveAs.
CloseSaveVideo ==
    /\ closePc = "saveVideo"
    /\ closePc' = IF saveVideo(handles.page, recordVideo, FALSE) # None
                  THEN "close" ELSE "saveAs"
    /\ UNCHANGED <<pageGone, videoPath>>
    /\ UNCHANGED <<runVars, castVars, serverVars, uiVars, overlapVars>>

\* video.saveAs settles: the page has closed, and the copy is made or fails.
CloseSaveAsSettles ==
    /\ closePc = "saveAs"
    /\ pageGone
    /\ \E rejects \in BOOLEAN :
          videoPath' = IF rejects THEN None ELSE Some("recording.webm")
    /\ closePc' = "close"
    /\ UNCHANGED pageGone
    /\ UNCHANGED <<runVars, castVars, serverVars, uiVars, overlapVars>>

\* await runner.close() and the reset of the session state that follows it.
CloseRunnerClose ==
    /\ closePc = "close"
    /\ LET c == close(handles, screencastActive, cdpSession)
       IN  /\ handles' = c.handles
           /\ cdpSession' = c.cdpSession
           /\ screencastActive' = c.screencastActive
    /\ open' = OpenAfterClose(TRUE)
    /\ runner' = FALSE
    /\ currentSteps' = <<>>
    /\ screencastFrameCallback' = FALSE
    /\ isRecordingVideo' = FALSE
    /\ isHeadless' = TRUE
    /\ pageGone' = FALSE
    /\ closePc' = "return"
    /\ UNCHANGED <<shots, nSessions, recordVideo, runnerHeadless, castModes, lastCall,
                   closedSince, closedARunner, peakOpen, nCalls, lastResult, lastVideo,
                   latestFrame, unread, callBudget, stale, videoPath>>
    /\ UNCHANGED <<runRest, castRest, uiVars, overlapVars>>

\* The handler returns its result.
CloseReturn ==
    /\ closePc = "return"
    /\ lastCall' = CallOf("close-browser",
                          Returned(FALSE, IF videoPath # None
                                          THEN "Browser closed. Video saved"
                                          ELSE "Browser closed"))
    /\ lastResult' = Some([tool |-> "close-browser", closed |-> TRUE,
                           videoPath |-> videoPath])
    /\ closedSince' = TRUE
    /\ unread' = FALSE
    /\ closePc' = "idle"
    /\ UNCHANGED <<handles, shots, cdpSession, screencastActive, nSessions, runner,
                   currentSteps, isHeadless, isRecordingVideo, open, recordVideo,
                   runnerHeadless, castModes, closedARunner, peakOpen, nCalls, lastVideo,
                   screencastFrameCallback, latestFrame, callBudget, stale, pageGone,
                   videoPath>>
    /\ UNCHANGED <<runRest, castRest, uiVars, overlapVars>>

\* Browser side: the page of the current runner closes without a tool call,
\* the window of a headed browser being closed by hand.
PageCloses ==
    /\ runner /\ handles.page /\ ~runnerHeadless /\ ~pageGone
    /\ pageGone' = TRUE
    /\ UNCHANGED <<closePc, videoPath>>
    /\ UNCHANGED <<runVars, castVars, serverVars, uiVars, overlapVars>>

\* playwright-run, called while no close-browser is in progress.
RunBeforeClose ==
    /\ closePc = "idle"
    /\ ~pageGone
    /\ PlaywrightRun

\* The server as it starts, followed for MaxCloseCalls tool calls.
InitClose ==
    /\ actions = <<>>
    /\ opts = DefaultOptions
    /\ twinOn = FALSE
    /\ actions2 = <<>>
    /\ InitSession
    /\ recordVideo = FALSE
    /\ callBudget = MaxCloseCalls
    /\ InitFields
    /\ InitApp(UiBuilt)

NextClose ==
    \/ RunBeforeClose \/ CloseCall \/ CloseSaveVideo \/ CloseSaveAsSettles
    \/ CloseRunnerClose \/ CloseReturn \/ PageCloses

\* A handler in progress goes on whenever what it awaits has settled; a tool
\* call and the closing of a window by hand need not happen.
SpecClose ==
    /\ InitClose
    /\ [][NextClose]_vars
    /\ WF_vars(CloseSaveVideo)
    /\ WF_vars(CloseSaveAsSettles)
    /\ WF_vars(CloseRunnerClose)
    /\ WF_vars(CloseReturn)

\* C31 as stated: close-browser always terminates: a handler that has started
\* reaches runner.close() and its return, also when the runner records video
\* and video.saveAs completes only once the page has closed.
C31_CloseBrowserTerminates ==
    (closePc # "idle") ~> (closePc = "idle")



\* C32 as stated: after every completed tool call, while the runner holds a
\* browser, isHeadless is the headless mode that browser was launched with and
\* isRecordingVideo is true exactly when the runner records video.
C32_FlagsDescribeTheRunner ==
    (lastCall # None /\ runner /\ handles.browser)
        => (isHeadless = runnerHeadless /\ isRecordingVideo = recordVideo)


----------------------------------------------------------------------------
\* Two playwright-run calls that overlap (server.ts lines 134-188)
\*
\* A handler runs until it awaits, and another handler may start or go on
\* while it waits. The awaits of the handler are runner.close() and
\* runner.run(), whose first await is chromium.launch(); the launch, the new
\* context and the new page are taken as one step.

Handlers == {1, 2}

\* The handles of a runner object whose browser is in state b.
HandlesOf(b) == [browser |-> b = "open", context |-> b = "open", page |-> b = "open"]

\* The number of browsers open.
OpenCount(bo) == Cardinality({r \in Handlers : bo[r] = "open"})

\* runner = new PlaywrightRunner(...) in handler h, with the flags it sets
\* before, and the call of runner.run() up to its first await.
NewRunner(h, bo) ==
    /\ held' = h
    /\ runner' = TRUE
    /\ handles' = HandlesOf(bo[h])
    /\ isHeadless' = TRUE
    /\ isRecordingVideo' = FALSE
    /\ recordVideo' = FALSE
    /\ runnerHeadless' = TRUE

\* close() on runner object r: it closes the browser the object holds, and
\* does nothing for an object whose launch has yet to resolve.
closeObject(bo, r) ==
    IF bo[r] = "open" THEN [bo EXCEPT ![r] = "closed"] ELSE bo

\* Handler h starts: with a runner in place it calls runner.close() and
\* awaits it, without one it makes its runner and awaits the launch.
OverlapStart ==
    \E h \in Handlers, acts \in ToolActionLists :
       /\ hpc[h] = "idle"
       /\ \A g \in Handlers : g < h => hpc[g] # "idle"
       /\ req' = [req EXCEPT ![h] = acts]
       /\ nCalls' = nCalls + 1
       /\ IF held # 0
          THEN /\ browserOf' = closeObject(browserOf, held)
               /\ handles' = HandlesOf(browserOf'[held])
               /\ hpc' = [hpc EXCEPT ![h] = "close"]
               /\ UNCHANGED <<held, runner, isHeadless, isRecordingVideo, recordVideo,
                              runnerHeadless>>
          ELSE /\ NewRunner(h, browserOf)
               /\ hpc' = [hpc EXCEPT ![h] = "launch"]
               /\ UNCHANGED browserOf
       /\ open' = OpenCount(browserOf')
       /\ UNCHANGED <<shots, cdpSession, screencastActive, nSessions, currentSteps,
                      castModes, lastCall, closedSince, closedARunner, peakOpen,
                      lastResult, lastVideo, screencastFrameCallback, latestFrame,
                      unread, callBudget, stale, stepsOwner>>
       /\ UNCHANGED <<runRest, castRest, uiVars, closeVars>>

\* await runner.close() resolves in handler h, which makes its runner.
OverlapClosed ==
    \E h \in Handlers :
       /\ hpc[h] = "close"
       /\ NewRunner(h, browserOf)
       /\ hpc' = [hpc EXCEPT ![h] = "launch"]
       /\ UNCHANGED <<shots, cdpSession, screencastActive, nSessions, currentSteps, open,
                      castModes, lastCall, closedSince, closedARunner, peakOpen, nCalls,
                      lastResult, lastVideo, screencastFrameCallback, latestFrame,
                      unread, callBudget, stale, browserOf, req, stepsOwner>>
       /\ UNCHANGED <<runRest, castRest, uiVars, closeVars>>

\* The launch of handler h's runner settles: the object holds its browser, or
\* run() rejects and the handler throws.
OverlapLaunched ==
    \E h \in Handlers, ok \in BOOLEAN :
       /\ hpc[h] = "launch"
       /\ browserOf' = IF ok THEN [browserOf EXCEPT ![h] = "open"] ELSE browserOf
       /\ hpc' = [hpc EXCEPT ![h] = IF ok THEN "steps" ELSE "done"]
       /\ open' = OpenCount(browserOf')
       /\ peakOpen' = IF open' > peakOpen THEN open' ELSE peakOpen
       /\ handles' = IF held = 0 THEN handles ELSE HandlesOf(browserOf'[held])
       /\ lastCall' = IF ok THEN lastCall
                      ELSE CallOf("playwright-run", Thrown("launch failed"))
       /\ UNCHANGED <<shots, cdpSession, screencastActive, nSessions, runner,
                      currentSteps, isHeadless, isRecordingVideo, recordVideo,
                      runnerHeadless, castModes, closedSince, closedARunner, nCalls,
                      lastResult, lastVideo, screencastFrameCallback, latestFrame,
                      unread, callBudget, stale, held, req, stepsOwner>>
       /\ UNCHANGED <<runRest, castRest, uiVars, closeVars>>

\* runner.run() resolves in handler h: currentSteps = its steps, and the
\* handler returns.
OverlapReturn ==
    \E h \in Handlers :
    \E envs \in [1..(Len(req[h]) + 1) -> ToolEnvs] :
       /\ hpc[h] = "steps"
       /\ currentSteps' = run(req[h], DefaultOptions, envs, 1)
       /\ stepsOwner' = h
       /\ shots' = Len(req[h]) + 1
       /\ lastCall' = CallOf("playwright-run", Returned(FALSE, "Executed"))
       /\ lastResult' = ToolResult("playwright-run", req[h], currentSteps')
       /\ hpc' = [hpc EXCEPT ![h] = "done"]
       /\ UNCHANGED <<handles, cdpSession, screencastActive, nSessions, runner,
                      isHeadless, isRecordingVideo, open, recordVideo, runnerHeadless,
                      castModes, closedSince, closedARunner, peakOpen, nCalls, lastVideo,
                      screencastFrameCallback, latestFrame, unread, callBudget, stale, held,
                      browserOf, req>>
       /\ UNCHANGED <<runRest, castRest, uiVars, closeVars>>

NextOverlap ==
    OverlapStart \/ OverlapClosed \/ OverlapLaunched \/ OverlapReturn

SpecOverlap == InitTools /\ [][NextOverlap]_vars

\* C33 as stated: once two playwright-run calls, overlapping or not, have both
\* finished, every browser that was launched is the one the current runner
\* holds or has been closed, and currentSteps holds the steps of the current
\* runner.
C33_NoBrowserLeakedByOverlap ==
    (\A h \in Handlers : hpc[h] = "done")
        => /\ \A r \in Handlers : browserOf[r] = "open" => held = r
           /\ (held # 0 /\ browserOf[held] = "open") => stepsOwner = held



\* C34 as stated: whenever the server's runner is set it has a page, and a
\* tool call that found a runner never fails with "No active page"; also
\* after a playwright-run whose launch failed.
C34_RunnerHasAPage ==
    /\ runner => handles.page
    /\ (lastCall # None /\ lastCall[1].hadRunner /\ lastCall[1].tool = "take-screenshot")
          => ~(lastCall[1].threw /\ lastCall[1].text = "No active page")



\* The value performAction(action) hands to page.fill, None when it does not
\* get to call page.fill.
fillValue(action, page) ==
    IF page /\ action.type = "fill" /\ precondition(action) = None
    THEN action.value ELSE None

\* C35 as stated: replaying a fill step fills the field with the value the
\* original run typed into it, password fields included.
C35_ReplayFillsTheOriginalValue ==
    (replayed # None /\ replayed[1].pos >= 2 /\ replayed[1].step.type = "fill"
        /\ \E n \in 1..Len(trace) :
              /\ trace[n].pos = replayed[1].pos - 2
              /\ trace[n].called # None
              /\ trace[n].called[1].op = "fill")
        => LET old == actions[replayed[1].pos - 1]
               step == replayed[1].step
           IN  fillValue(Action(step.type, step.selector, step.value), handles.page)
                  = fillValue(old, TRUE)



\* C36 as stated: get-screencast-frame hands out the most recent frame, and
\* each frame at most once: a frame it returns is never one that the browser
\* has produced a newer frame after, and once it has returned a frame none is
\* kept until a newer one arrives.
C36_FrameReturnedIsTheNewest ==
    /\ (lastResult # None /\ lastResult[1].tool = "get-screencast-frame"
           /\ lastResult[1].hasFrame)
          => ~lastResult[1].stale
    /\ (lastCall # None /\ lastCall[1].tool = "get-screencast-frame" /\ ~unread)
          => latestFrame = None


----------------------------------------------------------------------------
\* Replay from a step card (unnamed/part_003 lines 375-406 and 481-495, with
\* the replay-step handler of src/main.tsx lines 194-219)
\*
\* The copy of the component that has a Replay button on each card calls
\* replayStep(step.index); the handler replays currentSteps[stepIndex] and the
\* component writes the result to newSteps[stepIndex].

UiReplayCopy == "unnamed/part_003"

\* newSteps[stepIndex] = step on a copy of the array: an index equal to the
\* length appends.
setStepAt(sts, stepIndex, step) ==
    IF stepIndex < Len(sts) THEN [sts EXCEPT ![stepIndex + 1] = step]
    ELSE Append(sts, step)

\* ontoolresult of this copy with the result of the last playwright-run.
CardToolResult ==
    /\ lastResult # None /\ lastResult[1].tool = "playwright-run"
    /\ data' = Some(lastResult[1].steps)
    /\ expandedSteps' = failedSteps(UiBuilt, lastResult[1].steps)
    /\ UNCHANGED <<uiCopy, activeStepIndex, isAutoPlaying, scrollSyncEnabled,
                   syncTimerPending, observer, interval, ticks, lastUi, error, lastReplay>>
    /\ UNCHANGED <<runVars, castVars, serverVars, asyncVars>>

\* A click on Replay of the card at array position p (the button is disabled
\* on a skipped step): the replay-step tool is called with step.index, and
\* when it returns a step the component stores it.
CardReplay ==
    /\ data # None
    /\ nCalls < callBudget
    /\ \E p \in StepIdxs(data[1]), env \in ToolEnvs :
          LET stepIndex == data[1][p + 1].index
              valid == runner /\ stepIndex >= 0 /\ stepIndex < Len(currentSteps)
              r == IF valid
                   THEN replayStep(currentSteps[stepIndex + 1], handles.page, env,
                                   shots + 1)
                   ELSE [threw |-> None, result |-> None]
              res == replayStepTool(runner, stepIndex, Len(currentSteps), r)
              stored == valid /\ r.threw = None
          IN  /\ data[1][p + 1].status # "skipped"
              /\ lastCall' = CallOf("replay-step", res)
              /\ currentSteps' = IF stored
                                 THEN [currentSteps EXCEPT ![stepIndex + 1] = r.result[1]]
                                 ELSE currentSteps
              /\ shots' = IF stored THEN shots + 1 ELSE shots
              /\ data' = IF stored
                         THEN Some(setStepAt(data[1], stepIndex, r.result[1]))
                         ELSE data
              /\ lastReplay' = Some([card     |-> p,
                                     executed |-> IF stored THEN Some(stepIndex) ELSE None,
                                     written  |-> IF stored THEN Some(stepIndex) ELSE None])
    /\ nCalls' = nCalls + 1
    /\ lastResult' = None
    /\ UNCHANGED <<handles, cdpSession, screencastActive, nSessions, runner, isHeadless,
                   isRecordingVideo, open, recordVideo, runnerHeadless, castModes,
                   closedSince, closedARunner, peakOpen, lastVideo,
                   screencastFrameCallback, latestFrame, unread, callBudget, stale>>
    /\ UNCHANGED <<uiCopy, expandedSteps, activeStepIndex, isAutoPlaying,
                   scrollSyncEnabled, syncTimerPending, observer, interval, ticks, lastUi,
                   error>>
    /\ UNCHANGED <<runRest, castRest, asyncVars>>

\* The server and this copy of the component as they start.
InitCard ==
    /\ actions = <<>>
    /\ opts = DefaultOptions
    /\ twinOn = FALSE
    /\ actions2 = <<>>
    /\ InitServer
    /\ InitFields
    /\ InitApp(UiReplayCopy)

NextCard == PlaywrightRun \/ CardToolResult \/ CardReplay

SpecCard == InitCard /\ [][NextCard]_vars

\* C37 as stated: a replay from the card at position p re-executes the step
\* at position p and overwrites the entry at position p, for every card that
\* can be replayed, the last one included.
C37_CardReplaysItsOwnStep ==
    lastReplay # None
        => /\ lastReplay[1].executed = Some(lastReplay[1].card)
           /\ lastReplay[1].written = Some(lastReplay[1].card)



\* The numbers of expandedSteps that a card is looked up by: step.index in
\* the built copy, the array index in the other copy.
CardKeys(copy, sts) ==
    IF copy = UiBuilt THEN {sts[k].index : k \in 1..Len(sts)} ELSE StepIdxs(sts)

\* C38 as stated: whenever data has steps, activeStepIndex is a valid
\* position in data.steps and every member of expandedSteps refers to an
\* existing step, after any sequence of partial-input, tool-result, selection
\* and auto-play events.
C38_ActiveAndExpandedAreValid ==
    (data # None /\ Len(data[1]) > 0)
        => /\ activeStepIndex \in StepIdxs(data[1])
           /\ expandedSteps \subseteq CardKeys(uiCopy, data[1])

\* C40 as stated: when a tool result flagged isError arrives, its error text
\* is shown, whatever the timeline displayed before.
C40_ErrorResultIsShown ==
    LastUiIs("error") => (error # None /\ shownError(data, error) = error)



\* goToNext: the array index it selects, None when its loop finds no step
\* with a screenshot after activeIndex.
goToNext(sts, activeIndex) ==
    LET after == {k \in StepIdxs(sts) : k > activeIndex /\ sts[k + 1].screenshot # None}
    IN  IF after = {} THEN None
        ELSE Some(CHOOSE k \in after : \A m \in after : k <= m)

\* goToPrev: the array index it selects, None when its loop finds no step
\* with a screenshot before activeIndex.
goToPrev(sts, activeIndex) ==
    LET before == {k \in StepIdxs(sts) : k < activeIndex /\ sts[k + 1].screenshot # None}
    IN  IF before = {} THEN None
        ELSE Some(CHOOSE k \in before : \A m \in before : k >= m)

\* hasNext and hasPrev of the carousel, which enable its two controls: they
\* compare step.index of the steps with a screenshot to activeIndex.
hasNext(sts, activeIndex) ==
    \E k \in 1..Len(sts) : sts[k].screenshot # None /\ sts[k].index > activeIndex

hasPrev(sts, activeIndex) ==
    \E k \in 1..Len(sts) : sts[k].screenshot # None /\ sts[k].index < activeIndex

\* C39 as stated: Next is enabled exactly when goToNext would move to another
\* step and Previous exactly when goToPrev would move, for every step list
\* shown and every active position.
C39_ControlsEnabledIffTheyMove ==
    data # None
        => /\ hasNext(data[1], activeStepIndex) = (goToNext(data[1], activeStepIndex) # None)
           /\ hasPrev(data[1], activeStepIndex) = (goToPrev(data[1], activeStepIndex) # None)

====
